---------------------------- MODULE Spec2Model ----------------------------
(***************************************************************************)
(* Copytrading bot: the router (main), the three venue handlers it         *)
(* dispatches to (RaydiumService, PumpSwapService, PumpPortalService) and  *)
(* the PumpPortal feed handler (handleWebSocketMessage).                   *)
(*                                                                         *)
(* JavaScript numbers are modelled as exact rationals <<n, d>> (d > 0,     *)
(* lowest terms).  One action is one run of a handler between two awaits.  *)
(***************************************************************************)
EXTENDS Integers, Sequences, FiniteSets, TLC

(***************************************************************************)
(* Rational arithmetic (the `number` type).                                *)
(***************************************************************************)
Abs(x) == IF x < 0 THEN -x ELSE x

RECURSIVE Gcd(_, _)
Gcd(a, b) == IF b = 0 THEN a ELSE Gcd(b, a % b)

Rat(n, d) == LET g == Gcd(Abs(n), d) IN <<n \div g, d \div g>>

Zero == <<0, 1>>
One == <<1, 1>>
RInt(k) == <<k, 1>>

RAdd(a, b) == Rat(a[1] * b[2] + b[1] * a[2], a[2] * b[2])
RNeg(a) == <<-a[1], a[2]>>
RSub(a, b) == RAdd(a, RNeg(b))
RMul(a, b) ==
    IF a[1] = 0 \/ b[1] = 0 THEN Zero
    ELSE LET g1 == Gcd(Abs(a[1]), b[2])
             g2 == Gcd(Abs(b[1]), a[2])
         IN  <<(a[1] \div g1) * (b[1] \div g2), (a[2] \div g2) * (b[2] \div g1)>>
RInv(a) == IF a[1] < 0 THEN <<-a[2], -a[1]>> ELSE <<a[2], a[1]>>
RDiv(a, b) == RMul(a, RInv(b))
RLt(a, b) == a[1] * b[2] < b[1] * a[2]
RLe(a, b) == a[1] * b[2] <= b[1] * a[2]
RMin(a, b) == IF RLt(b, a) THEN b ELSE a
RMax(a, b) == IF RLt(a, b) THEN b ELSE a
RAbs(a) == <<Abs(a[1]), a[2]>>
RFloor(a) == a[1] \div a[2]
RCeil(a) == -((-a[1]) \div a[2])

RECURSIVE Pow10(_)
Pow10(k) == IF k = 0 THEN 1 ELSE 10 * Pow10(k - 1)


(***************************************************************************)
(* Bounds of the model.                                                    *)
(***************************************************************************)
MaxDeliveries == 2      \* inbound messages handled by the router in one run
MaxHandlers == 2        \* handler invocations in progress at the same time

(***************************************************************************)
(* Configuration (config.ts is not part of the repository; the values are  *)
(* the ones the specification names) and program constants.                *)
(***************************************************************************)
LAMPORTS_PER_SOL == 1000000000
MAX_FETCH_ATTEMPTS == 5
\* `for (let attempt = 0; attempt < 5; attempt++)` around checkTransactionStatus,
\* PumpSwapService lines 146, 213, 477, 575 and 676
MAX_CONFIRM_POLLS == 5
RAYDIUM_TRADE_PERCENTAGE == <<1, 10>>
RAYDIUM_SLIPPAGE == <<1, 100>>
TRADE_PERCENTAGE == <<1, 10>>
SLIPPAGE == <<1, 100>>
MIN_SWAP_AMOUNT == <<1, 100>>
MIN_TRADE_AMOUNT == <<1, 100>>
PUMP_PORTAL_TRADE_PERCENTAGE == <<1, 10>>
MIN_TOKEN_THRESHOLD == <<0, 1>>
FEE_RESERVE == <<1, 20000>>
LAST_SALE_TOLERANCE == <<1, 100>>

SOL_MINT == "SOL"
TARGET_WALLET == "target"
Mints == {"A"}
Services == {"raydium", "pumpswap"}

(***************************************************************************)
(* The ledger's transactions of interest.  A transaction is what           *)
(* getParsedTransaction returns: fee payer (accountKeys[0]), the program   *)
(* ids of its instructions and account keys, the markers found in its log  *)
(* messages, native balances of the fee payer, token balance snapshots and *)
(* the first parsed spl-token transfer instruction.                        *)
(***************************************************************************)
Tok(mint, owner, amount, decimals) ==
    [mint |-> mint, owner |-> owner, amount |-> amount, decimals |-> decimals]

NoTransfer == [present |-> FALSE, mint |-> "none", amount |-> 0, source |-> "none"]

BaseTx ==
    [feePayer |-> TARGET_WALLET, programs |-> {}, inner |-> {}, keys |-> {},
     logs |-> {}, preBalance |-> 0, postBalance |-> 0, fee |-> 5000,
     preTok |-> <<>>, postTok |-> <<>>, transfer |-> NoTransfer]

\* native cost `lamportsOut` (after fee), token A from `pre` to `post` raw units (2 decimals)
SwapTx(lamportsOut, pre, post) ==
    [BaseTx EXCEPT !.preBalance = 2100000000,
                   !.postBalance = 2100000000 - lamportsOut - 5000,
                   !.preTok = IF pre > 0 THEN <<Tok("A", TARGET_WALLET, pre, 2)>> ELSE <<>>,
                   !.postTok = IF post > 0 THEN <<Tok("A", TARGET_WALLET, post, 2)>> ELSE <<>>]

Raydium(tx) == [tx EXCEPT !.programs = {"raydium"}, !.logs = {"Swap"}]
PumpAmm(tx) == [tx EXCEPT !.keys = {"pumpswap"}, !.logs = {"Instruction: Buy"}]

\* a transaction with the given owned token balance snapshots; the native balance of
\* the fee payer changes by -lamportsOut and the fee
TokTx(lamportsOut, preTok, postTok) ==
    [BaseTx EXCEPT !.preBalance = 2100000000,
                   !.postBalance = 2100000000 - lamportsOut - 5000,
                   !.preTok = preTok, !.postTok = postTok]

Sigs == {"rb", "rb2", "rbs", "rs50", "rs100", "rx", "pb", "ps50", "pp"}

\* transactions that move more than one owned token balance, or none (ClassifySpec);
\* the wrapped settlement asset is the token of mint SOL_MINT, 9 decimals
ClassifySigs == {"rsw", "rtt", "rnn", "rbw", "psw", "ptt"}

\* transactions paid by another wallet that touch the watched wallet's accounts
\* (getSignaturesForAddress names every transaction that involves the address)
ForeignSigs == {"rf", "pf", "ppf"}

\* transactions of the watched wallet whose log messages carry the markers of
\* several venues, of one, or of none; they move no token balance
MarkerSigs == {"mall", "mpa", "ma", "mu"}

\* pump-portal transactions of the watched wallet: two buys of A and a sell of A
PortalSigs == {"pp", "pp2", "pps"}

\* a sell of a quarter of a position, landing once the position is open (PumpSellSpec)
PartialSellSigs == {"ps25"}

TxOf(s) ==
    CASE s = "rb"    -> Raydium(SwapTx(2000000000, 0, 10000))      \* buy 100 A for 2 SOL
      [] s = "rb2"   -> Raydium(SwapTx(1000000000, 10000, 15000))  \* buy 50 A for 1 SOL
      [] s = "rbs"   -> Raydium(SwapTx(50000000, 10000, 20000))    \* buy 100 A for 0.05 SOL
      [] s = "rs50"  -> Raydium(SwapTx(-10000000, 20000, 15000))   \* sell 50 A
      [] s = "rs100" -> Raydium(SwapTx(-10000000, 15000, 5000))    \* sell 100 A
      [] s = "rx"    -> [SwapTx(2000000000, 0, 10000) EXCEPT       \* program id, no Swap log
                            !.programs = {"raydiumCpmm"}, !.logs = {"CAMM"}]
      [] s = "pb"    -> PumpAmm(SwapTx(2000000000, 0, 10000))      \* buy 100 A for 2 SOL
      [] s = "ps50"  -> PumpAmm(SwapTx(-10000000, 10000, 5000))    \* sell 50 A
      [] s = "ps25"  -> PumpAmm(SwapTx(-5000000, 10000, 7500))     \* sell 25 A
      \* sell 50 A, the proceeds credited to the owned wrapped-SOL account
      [] s = "rsw"   -> Raydium(TokTx(0, <<Tok("A", TARGET_WALLET, 20000, 2)>>,
                                      <<Tok("A", TARGET_WALLET, 15000, 2),
                                        Tok(SOL_MINT, TARGET_WALLET, 10000000, 9)>>))
      \* swap 50 A for 7 B
      [] s = "rtt"   -> Raydium(TokTx(0, <<Tok("A", TARGET_WALLET, 20000, 2)>>,
                                      <<Tok("A", TARGET_WALLET, 15000, 2),
                                        Tok("B", TARGET_WALLET, 700, 2)>>))
      \* no owned token balance moves
      [] s = "rnn"   -> Raydium(TokTx(0, <<Tok("A", TARGET_WALLET, 10000, 2)>>,
                                      <<Tok("A", TARGET_WALLET, 10000, 2)>>))
      \* buy 100 A, paid from the owned wrapped-SOL account
      [] s = "rbw"   -> Raydium(TokTx(0, <<Tok(SOL_MINT, TARGET_WALLET, 10000000, 9)>>,
                                      <<Tok("A", TARGET_WALLET, 10000, 2)>>))
      [] s = "psw"   -> PumpAmm(TokTx(0, <<Tok("A", TARGET_WALLET, 20000, 2)>>,
                                      <<Tok("A", TARGET_WALLET, 15000, 2),
                                        Tok(SOL_MINT, TARGET_WALLET, 10000000, 9)>>))
      [] s = "ptt"   -> PumpAmm(TokTx(0, <<Tok("A", TARGET_WALLET, 20000, 2)>>,
                                      <<Tok("A", TARGET_WALLET, 15000, 2),
                                        Tok("B", TARGET_WALLET, 700, 2)>>))
      \* another wallet's swaps that deliver 100 A to the watched wallet
      [] s = "rf"    -> [Raydium(SwapTx(0, 0, 10000)) EXCEPT !.feePayer = "other"]
      [] s = "pf"    -> [PumpAmm(SwapTx(0, 0, 10000)) EXCEPT !.feePayer = "other"]
      [] s = "ppf"   -> [BaseTx EXCEPT !.feePayer = "other", !.logs = {"pump-portal"},
                            !.transfer = [present |-> TRUE, mint |-> "A",
                                          amount |-> 100000000, source |-> "other"]]
      [] s = "pp2"   -> [BaseTx EXCEPT !.logs = {"pump-portal"},         \* buy 50 A for 1 SOL
                            !.preBalance = 2100000000,
                            !.postBalance = 2100000000 - 1000000000 - 5000,
                            !.transfer = [present |-> TRUE, mint |-> "A",
                                          amount |-> 50000000, source |-> "other"]]
      [] s = "pps"   -> [BaseTx EXCEPT !.logs = {"pump-portal"},         \* sell 50 A
                            !.transfer = [present |-> TRUE, mint |-> "A",
                                          amount |-> 50000000, source |-> TARGET_WALLET]]
      [] s = "mall"  -> [BaseTx EXCEPT !.logs = {"Swap", "pump-portal", "pump-amm"}]
      [] s = "mpa"   -> [BaseTx EXCEPT !.logs = {"pump-portal", "Instruction: Sell"}]
      [] s = "ma"    -> [BaseTx EXCEPT !.logs = {"pump-amm"}]
      [] s = "mu"    -> BaseTx
      [] s = "pp"    -> [BaseTx EXCEPT !.logs = {"pump-portal"},         \* buy 100 A for 2 SOL
                            !.preBalance = 2100000000,
                            !.postBalance = 2100000000 - 2000000000 - 5000,
                            !.transfer = [present |-> TRUE, mint |-> "A",
                                          amount |-> 100000000, source |-> "other"]]

(***************************************************************************)
(* Catalogue of the trade messages of the PumpPortal feed                  *)
(* (subscribeAccountTrade), as handleWebSocketMessage reads them.          *)
(***************************************************************************)
PUMP_PORTAL_SOURCE_WALLET == "target"

FeedSigs == {"fb", "fbs", "fs50", "fs100", "fo"}

AllSigs == Sigs \cup PartialSellSigs \cup ClassifySigs \cup ForeignSigs \cup MarkerSigs
           \cup PortalSigs
           \cup FeedSigs

FeedMsg(s) ==
    LET m == [signature |-> s, traderPublicKey |-> PUMP_PORTAL_SOURCE_WALLET, txType |-> "buy",
              mint |-> "A", tokenAmount |-> RInt(100), solAmount |-> RInt(2), pool |-> "pump"]
    IN  CASE s = "fb"    -> m                                            \* buy 100 A for 2 SOL
          [] s = "fbs"   -> [m EXCEPT !.solAmount = Rat(1, 20)]          \* buy 100 A for 0.05 SOL
          [] s = "fs50"  -> [m EXCEPT !.txType = "sell", !.tokenAmount = RInt(50),
                                      !.solAmount = One]
          [] s = "fs100" -> [m EXCEPT !.txType = "sell", !.solAmount = One,
                                      !.pool = "raydium"]
          [] s = "fo"    -> [m EXCEPT !.traderPublicKey = "other"]

(***************************************************************************)
(* Transaction classifier: RaydiumService.processTransaction lines 253-308 *)
(* and the identical PumpSwapService.processTransaction lines 272-327.     *)
(***************************************************************************)
Min(S) == CHOOSE x \in S : \A y \in S : x <= y

\* Array.find over a token balance snapshot: amount of the first entry of the mint
FindAmount(toks, mint) ==
    LET idx == {i \in 1..Len(toks) : toks[i].mint = mint /\ toks[i].owner = TARGET_WALLET}
    IN  IF idx = {} THEN 0 ELSE toks[Min(idx)].amount

\* first owned pre-balance that decreased (the input asset)
InputDelta(tx) ==
    LET idx == {i \in 1..Len(tx.preTok) :
                    /\ tx.preTok[i].owner = TARGET_WALLET
                    /\ tx.preTok[i].amount > FindAmount(tx.postTok, tx.preTok[i].mint)}
    IN  IF idx = {} THEN [found |-> FALSE, mint |-> SOL_MINT, amount |-> Zero]
        ELSE LET b == tx.preTok[Min(idx)]
             IN  [found |-> TRUE, mint |-> b.mint,
                  amount |-> Rat(b.amount - FindAmount(tx.postTok, b.mint), Pow10(b.decimals))]

\* first owned post-balance that increased (the output asset)
OutputDelta(tx) ==
    LET idx == {i \in 1..Len(tx.postTok) :
                    /\ tx.postTok[i].owner = TARGET_WALLET
                    /\ tx.postTok[i].amount > FindAmount(tx.preTok, tx.postTok[i].mint)}
    IN  IF idx = {} THEN [found |-> FALSE, mint |-> SOL_MINT, amount |-> Zero]
        ELSE LET b == tx.postTok[Min(idx)]
             IN  [found |-> TRUE, mint |-> b.mint,
                  amount |-> Rat(b.amount - FindAmount(tx.preTok, b.mint), Pow10(b.decimals))]

\* a classifier that calls every transaction with a token input a sell
ParseSwapAnyOutput(tx) ==
    LET in == InputDelta(tx)
        out == OutputDelta(tx)
        solDecreased == tx.preBalance > tx.postBalance
        isBuy == in.mint = SOL_MINT /\ out.mint # SOL_MINT
        isSell == in.mint # SOL_MINT
    IN  [inputMint |-> in.mint,
         outputMint |-> out.mint,
         tokenAmount |-> IF out.found THEN out.amount ELSE in.amount,
         solAmount |-> IF solDecreased /\ in.mint = SOL_MINT
                       THEN Rat(tx.preBalance - tx.postBalance - tx.fee, LAMPORTS_PER_SOL)
                       ELSE Zero,
         isBuy |-> isBuy,
         isSell |-> isSell,
         mint |-> IF isBuy THEN out.mint ELSE in.mint]

ParseSwap(tx) ==
    LET in == InputDelta(tx)
        out == OutputDelta(tx)
        solDecreased == tx.preBalance > tx.postBalance
        isBuy == in.mint = SOL_MINT /\ out.mint # SOL_MINT
        isSell == in.mint # SOL_MINT /\ out.mint = SOL_MINT
    IN  [inputMint |-> in.mint,
         outputMint |-> out.mint,
         \* the output loop runs last and overwrites tokenAmount
         tokenAmount |-> IF out.found THEN out.amount ELSE in.amount,
         solAmount |-> IF solDecreased /\ in.mint = SOL_MINT
                       THEN Rat(tx.preBalance - tx.postBalance - tx.fee, LAMPORTS_PER_SOL)
                       ELSE Zero,
         isBuy |-> isBuy,
         isSell |-> isSell,
         mint |-> IF isBuy THEN out.mint ELSE in.mint]

\* RaydiumService.processTransaction lines 230-239
isRaydium(tx, pool) ==
    LET isRaydiumTx == tx.programs \cap {"raydium", "raydiumCpmm"} # {}
        isRaydiumInnerTx == "raydiumCpmm" \in tx.inner
        hasSwapLog == "Swap" \in tx.logs
        hasRaydiumProgram == "CAMM" \in tx.logs
        isRaydiumFromData == pool = "raydium"
    IN  (isRaydiumTx \/ isRaydiumInnerTx \/ hasRaydiumProgram \/ isRaydiumFromData) /\ hasSwapLog

\* PumpSwapService.processTransaction lines 256-263
isPumpSwap(tx, pool) ==
    LET isPumpSwapProgram == "pumpswap" \in tx.keys
        hasPumpSwapLog == tx.logs \cap {"Instruction: Buy", "Instruction: Sell", "pump-amm"} # {}
        isPumpSwapFromData == pool = "pump-amm"
    IN  isPumpSwapProgram \/ hasPumpSwapLog \/ isPumpSwapFromData

\* a choice that looks at the pump-portal marker first
RouterPoolPortalFirst(tx) ==
    LET hasRaydiumLog == tx.logs \cap {"Swap", "CAMM"} # {}
        hasPumpPortalLog == "pump-portal" \in tx.logs
        hasPumpSwapLog == tx.logs \cap {"pump-amm", "Instruction: Buy", "Instruction: Sell"} # {}
    IN  IF hasPumpPortalLog THEN "pump-portal"
        ELSE IF hasRaydiumLog THEN "raydium"
        ELSE IF hasPumpSwapLog THEN "pump-amm"
        ELSE "unknown"

\* main, lines 228-238: venue chosen from the log messages
RouterPool(tx) ==
    LET hasRaydiumLog == tx.logs \cap {"Swap", "CAMM"} # {}
        hasPumpPortalLog == "pump-portal" \in tx.logs
        hasPumpSwapLog == tx.logs \cap {"pump-amm", "Instruction: Buy", "Instruction: Sell"} # {}
    IN  IF hasRaydiumLog THEN "raydium"
        ELSE IF hasPumpPortalLog THEN "pump-portal"
        ELSE IF hasPumpSwapLog THEN "pump-amm"
        ELSE "unknown"


(***************************************************************************)
(* State.                                                                  *)
(***************************************************************************)
VARIABLES
    landed,                 \* signatures of the watched wallet on the ledger
    latest,                 \* getSignaturesForAddress(limit 1): the newest of them
    deliveries,             \* inbound messages handled so far
    processedSignatures,    \* main: the Set shared by the three services
    sourceTokenBalances,    \* per service and mint: {bought, sold} of the watched wallet
    tokenBalances,          \* per service and mint: {bought, sold} of the controlled wallet
    handlers,               \* the handler invocations (async calls) and their locals
    effects,                \* history: swaps and ledger updates made per source signature
    returned,               \* history: signatures whose venue handler has returned
    tradeRecords,           \* per service and mint: the TradeRecord list of the service
    redeliveryEffects,      \* history: effects made by invocations started after such a return
    processedTransactions,  \* main: the Set of `${mint}:${txType}` keys of PumpPortalService
    feedProcessedSignatures,\* pumpPortal module: its own processedSignatures Set
    feedSourceTokenBalances,\* pumpPortal module: state.sourceTokenBalances
    feedTokenBalances       \* pumpPortal module: state.tokenBalances

feedVars == <<processedTransactions, feedProcessedSignatures, feedSourceTokenBalances,
              feedTokenBalances>>

vars == <<landed, latest, deliveries, processedSignatures, sourceTokenBalances,
          tokenBalances, handlers, effects, returned, redeliveryEffects, tradeRecords,
          feedVars>>

H == 1..MaxHandlers

\* what the environment may answer
FetchResults == {"ok", "missing", "throw"}
\* checkSolBalance: nothing, 0.1 SOL (enough for the fee reserve and for a sell, too
\* little for a mirrored buy of 1 SOL or more), 10 SOL
SolBalances == {Zero, Rat(1, 10), RInt(10)}
LiveUnits == {0, 1000, 2000}            \* raw units of a mint with 2 decimals
\* receivedSolAmount of a confirmed sell: the swap transaction could not be read
\* back (0), or 1 SOL
ReceivedSolAmounts == {Zero, One}
\* a swap is rejected before it is sent, sent but not seen confirmed, or confirmed
SwapResults == {"failed", "unconfirmed", "ok"}
\* getPumpSwapPool and validatePool: no quote, a valid PumpSwap pool, or a quote only
PoolResults == {"none", "direct", "quote"}
\* executePumpfunSwap: the trade API answers with a signature or without one
PumpfunResults == {"failed", "ok"}
\* sol_amount of the trade API's answer (Zero: absent)
PumpfunSolAmounts == {Zero, One}
\* pumpSwapSDK.buy: throws, returns "" (sendBundle swallowed the failure), or a bundle id
BundleResults == {"threw", "rejected", "ok"}
\* checkTransactionStatus: the status is confirmed or finalized, it is not, or
\* getSignatureStatus throws
PollResults == {"confirmed", "pending", "threw"}
\* ensureAssociatedTokenAccount, ensureWrappedSolAccount: there is nothing to
\* create or to wrap, the transaction that does it is sent, or a call throws
EnsureResults == {"ready", "sent", "threw"}
DecimalsOf(mint) == 2

ZeroBalance == [bought |-> Zero, sold |-> Zero]
\* pumpPortal module, lines 897 and 781: the record created for a mint
ZeroFeedBalance == [bought |-> Zero, sold |-> Zero, costInSol |-> Zero, revenueInSol |-> Zero]

Idle ==
    [pc |-> "idle", svc |-> "none", sig |-> "none", pool |-> "none", attempt |-> 0,
     path |-> "none", quoteUnits |-> 0, amountIn |-> 0, solBalance |-> Zero,
     sourceSold |-> Zero,
     sourceInitialBought |-> Zero, targetInitialBought |-> Zero, targetSold |-> Zero,
     realBalance |-> Zero, sellAmount |-> Zero, sellUnits |-> 0, isLastSale |-> FALSE,
     \* history of this invocation
     redelivered |-> FALSE, swaps |-> 0]

Free(h) == handlers[h].pc = "idle"

\* the invocation ends (outcome names the log event of the return)
Finished(r, outcome) == Idle

\* per source signature: swaps submitted, source-ledger updates (src), controlled-ledger
\* updates (ctl), deliveries of it handled after an earlier handling had returned
\* (again), classifications of it as a venue trade (cls), mirror swaps of it
\* observed confirmed (conf), swap calls that returned a transaction identifier
\* (ids), calls of a notifier (note), calls whose send failed (noteFailed),
\* notifier calls that threw to their caller (escaped), and invocations that ended
\* with an exception nothing caught (unhandled), and invocations for it that started
\* while another invocation for it was still in progress (overlap), and returns of
\* its handler at the insufficient_sol_balance warning (short), returns of its
\* service at transaction_invalid after the fetch loop (gaveUp), and additions of it
\* to the processed set by the service itself (marked), and answers of
\* getSignaturesForAddress to the router that named it (seen), and confirmation
\* loops of its handler that ended without a confirmation (unconfirmed)
NoEffects ==
    [swaps |-> 0, src |-> 0, ctl |-> 0, again |-> 0, cls |-> 0, conf |-> 0, ids |-> 0,
     note |-> 0, noteFailed |-> 0, escaped |-> 0, unhandled |-> 0, overlap |-> 0,
     short |-> 0, gaveUp |-> 0, marked |-> 0, seen |-> 0, unconfirmed |-> 0]

Again(sig) == [effects EXCEPT ![sig].again = @ + (IF sig \in returned THEN 1 ELSE 0)]

\* history of the effects of one step of invocation r: kinds is a subset of
\* the fields of NoEffects
EffectsOn(eff, r, kinds) ==
    [eff EXCEPT ![r.sig] = [k \in DOMAIN NoEffects |->
                                eff[r.sig][k] + (IF k \in kinds THEN 1 ELSE 0)]]

\* the listeners are not awaited by the emitter: invocation h starts on sig while
\* another invocation for sig has not finished
Overlap(h, sig) == IF \E g \in H \ {h} : handlers[g].sig = sig THEN {"overlap"} ELSE {}

RedeliveryEffects(r) == IF r.redelivered THEN redeliveryEffects + 1 ELSE redeliveryEffects

Effects(r, kinds) ==
    /\ effects' = EffectsOn(effects, r, kinds)
    /\ redeliveryEffects' = RedeliveryEffects(r)

\* RaydiumService line 39, PumpSwapService line 57: `this.tradeRecords = {}`; a
\* missing key reads as the empty list (lines 78 and 96)
NoTradeRecords == [v \in Services |-> [m \in Mints |-> <<>>]]

Init ==
    /\ landed = {}
    /\ latest = "none"
    /\ deliveries = 0
    /\ processedSignatures = {}
    /\ sourceTokenBalances = [v \in Services |-> [m \in Mints |-> ZeroBalance]]
    /\ tokenBalances = [v \in Services |-> [m \in Mints |-> ZeroBalance]]
    /\ handlers = [h \in H |-> Idle]
    /\ effects = [s \in AllSigs |-> NoEffects]
    /\ returned = {}
    /\ redeliveryEffects = 0
    /\ processedTransactions = {}
    /\ feedProcessedSignatures = {}
    /\ feedSourceTokenBalances = [m \in Mints |-> ZeroBalance]
    /\ feedTokenBalances = [m \in Mints |-> ZeroFeedBalance]
    /\ tradeRecords = NoTradeRecords

(***************************************************************************)
(* Idempotency guard: Set.has / Set.add on processedSignatures.            *)
(***************************************************************************)
\* a guard that forgets: the identifier is not added
MarkNothing(set, sig) == set

\* a check that never finds anything
HasProcessedNever(set, sig) == FALSE

HasProcessed(set, sig) == sig \in set


MarkProcessed(set, sig) == set \cup {sig}

(***************************************************************************)
(* Notifiers.  The send is answered with status 200, throws, is answered   *)
(* with another status, or the bot token / chat id is not configured.      *)
(***************************************************************************)
NotifyResults == {"sent", "exception", "non200", "missing_config"}

Notified == [sent |-> TRUE, threw |-> FALSE]
NotNotified == [sent |-> FALSE, threw |-> FALSE]
NotifierThrew == [sent |-> FALSE, threw |-> TRUE]

\* a notifier without its try/catch
sendTelegramMessageUncaught(outcome) ==
    IF outcome = "missing_config" THEN NotNotified
    ELSE IF outcome = "sent" THEN Notified
    ELSE NotifierThrew

\* RaydiumService.sendTelegramMessage: the early return of line 59, the throw of
\* line 69 for a status other than 200, and the catch of line 72
sendTelegramMessage(outcome) ==
    IF outcome = "missing_config" THEN NotNotified
    ELSE IF outcome = "sent" THEN Notified
    ELSE NotNotified

\* PumpSwapService.sendTelegramNotification, lines 74-93: the same code
sendTelegramNotification(outcome) ==
    IF outcome = "missing_config" THEN NotNotified
    ELSE IF outcome = "sent" THEN Notified
    ELSE NotNotified

\* pumpPortal module, sendTelegramMessage, lines 747-759: no configuration check,
\* everything is caught.
\* The url is built as ` FELIX https://api.telegram.org/...`, which is not a url the
\* http client can request: the send never succeeds.
feedSendTelegramMessage(outcome) == NotNotified

\* history of a notifier call that answered n
NoteKinds(n) ==
    {"note"} \cup (IF n.sent THEN {} ELSE {"noteFailed"})
             \cup (IF n.threw THEN {"escaped"} ELSE {})

(***************************************************************************)
(* The router's continuation after `await service.processTransaction(..)`  *)
(* returns: processedSignatures.add(signature), main lines 257/262/267 and *)
(* 202/205.  The handler invocation ends.                                  *)
(***************************************************************************)
\* a router that goes on without adding the signature
RouterReturnUnmarked(h, r, outcome, procSigs) ==
    /\ processedSignatures' = procSigs
    /\ handlers' = [handlers EXCEPT ![h] = Finished(r, outcome)]
    /\ returned' = returned \cup {r.sig}

RouterReturn(h, r, outcome, procSigs) ==
    /\ processedSignatures' = MarkProcessed(procSigs, r.sig)
    /\ handlers' = [handlers EXCEPT ![h] = Finished(r, outcome)]
    /\ returned' = returned \cup {r.sig}

\* an exception reaches the catch of the router's message handler, main line 274
RouterCatch(h, r) ==
    /\ handlers' = [handlers EXCEPT ![h] = Finished(r, "threw")]
    /\ UNCHANGED <<processedSignatures, returned>>

\* the handler goes on to its next await
Continue(h, r, procSigs) ==
    /\ handlers' = [handlers EXCEPT ![h] = r]
    /\ processedSignatures' = procSigs
    /\ UNCHANGED returned

(***************************************************************************)
(* Inbound account notifications (main, ws.on('message'), lines 182-277).  *)
(* EventEmitter does not await the async listener, so an invocation starts *)
(* whenever a message arrives.                                             *)
(***************************************************************************)
\* a swap of the watched wallet lands and the account notification arrives
TxLands(h, s) ==
    /\ Free(h)
    /\ \A g \in H : g < h => ~Free(g)
    /\ deliveries < MaxDeliveries
    /\ s \notin landed
    /\ landed' = landed \cup {s}
    /\ latest' = s
    /\ deliveries' = deliveries + 1
    /\ handlers' = [handlers EXCEPT ![h] = [Idle EXCEPT !.pc = "getSignatures"]]
    /\ UNCHANGED <<tradeRecords, feedVars, processedSignatures, sourceTokenBalances, tokenBalances, effects,
                   returned, redeliveryEffects>>

\* a further notification arrives without a new transaction (at-least-once delivery)
Redeliver(h) ==
    /\ Free(h)
    /\ \A g \in H : g < h => ~Free(g)
    /\ deliveries < MaxDeliveries
    /\ latest # "none"
    /\ deliveries' = deliveries + 1
    /\ handlers' = [handlers EXCEPT ![h] = [Idle EXCEPT !.pc = "getSignatures"]]
    /\ UNCHANGED <<tradeRecords, feedVars, landed, latest, processedSignatures, sourceTokenBalances, tokenBalances,
                   effects, returned, redeliveryEffects>>

\* main lines 214-220: the latest signature is fetched and checked against the guard
GetSignatures(h) ==
    /\ handlers[h].pc = "getSignatures"
    /\ LET r == [handlers[h] EXCEPT !.sig = latest, !.redelivered = latest \in returned]
       IN  handlers' = [handlers EXCEPT ![h] =
                IF HasProcessed(processedSignatures, latest)
                THEN Finished(r, "already_processed_main")
                ELSE [r EXCEPT !.pc = "routerFetch"]]
    /\ effects' = EffectsOn(Again(latest), [sig |-> latest],
                            Overlap(h, latest) \cup {"seen"})
    /\ UNCHANGED <<tradeRecords, feedVars, landed, latest, deliveries, processedSignatures, sourceTokenBalances,
                   tokenBalances, returned, redeliveryEffects>>


(***************************************************************************)
(* Entry of a service's processTransaction, run synchronously by the       *)
(* caller up to the first await: the guard check (RaydiumService line 212, *)
(* PumpSwapService line 230, PumpPortalService main lines 82-93).          *)
(***************************************************************************)
ServiceOf(pool) ==
    CASE pool = "raydium" -> "raydium"
      [] pool = "pump-amm" -> "pumpswap"
      [] pool = "pump-portal" -> "pumpportal"

FirstPc(svc) ==
    CASE svc = "raydium" -> "ray_fetch"
      [] svc = "pumpswap" -> "ps_fetch"
      [] svc = "pumpportal" -> "pp_fetch"

Dispatch(h, r0, pool) ==
    LET r == [r0 EXCEPT !.svc = ServiceOf(pool), !.pool = pool]
    IN  IF HasProcessed(processedSignatures, r.sig)
        THEN RouterReturn(h, r, "signature_already_processed", processedSignatures)
        ELSE Continue(h, [r EXCEPT !.pc = FirstPc(r.svc), !.attempt = 0], processedSignatures)

\* main lines 222-271: fetch the transaction, choose the venue from its logs, dispatch
RouterFetch(h) ==
    /\ handlers[h].pc = "routerFetch"
    /\ \E res \in FetchResults :
        LET r == handlers[h]
            pool == RouterPool(TxOf(r.sig))
        IN  CASE res = "throw" -> RouterCatch(h, r)
              [] res = "missing" ->
                    /\ handlers' = [handlers EXCEPT ![h] = Finished(r, "invalid_tx")]
                    /\ UNCHANGED <<processedSignatures, returned>>
              [] res = "ok" ->
                    IF pool = "unknown"
                    THEN /\ handlers' = [handlers EXCEPT ![h] = Finished(r, "unknown_pool")]
                         /\ UNCHANGED <<processedSignatures, returned>>
                    ELSE Dispatch(h, r, pool)
    /\ UNCHANGED <<tradeRecords, feedVars, landed, latest, deliveries, sourceTokenBalances, tokenBalances, effects,
                   redeliveryEffects>>

(***************************************************************************)
(* Inbound messages that carry a signature and a mint (main, lines         *)
(* 188-209): the guard, the pool named by the message, and the dispatch,   *)
(* with no await before the service's first one.                           *)
(***************************************************************************)
PushSigs == {"pp", "ps50", "pf", "rf"}

\* message.pool of the message about a signature
PushPool(s) ==
    CASE s = "pp" -> "pump"
      [] s \in {"ps50", "pf"} -> "pump-amm"
      [] OTHER -> "raydium"

PushMessage(h, s) ==
    /\ Free(h)
    /\ \A g \in H : g < h => ~Free(g)
    /\ deliveries < MaxDeliveries
    /\ deliveries' = deliveries + 1
    /\ LET r == [Idle EXCEPT !.sig = s, !.redelivered = s \in returned]
           pool == IF PushPool(s) = "pump" THEN "pump-portal" ELSE PushPool(s)
       IN  IF HasProcessed(processedSignatures, s)
           THEN /\ handlers' = [handlers EXCEPT ![h] =
                                    Finished(r, "already_processed_websocket")]
                /\ UNCHANGED <<processedSignatures, returned>>
           ELSE IF pool \in {"pump-portal", "pump-amm"}
           THEN Dispatch(h, r, pool)
           ELSE /\ handlers' = [handlers EXCEPT ![h] =
                                    Finished(r, "unknown_pool_websocket")]
                /\ UNCHANGED <<processedSignatures, returned>>
    /\ effects' = EffectsOn(Again(s), [sig |-> s], Overlap(h, s))
    /\ UNCHANGED <<tradeRecords, feedVars, landed, latest, sourceTokenBalances, tokenBalances,
                   redeliveryEffects>>

(***************************************************************************)
(* Trade records (RaydiumService.calculateProfitLoss lines 77-102,         *)
(* PumpSwapService.calculateProfitLoss lines 95-129): each call appends    *)
(* one record; the profit of a sell is computed from the records whose     *)
(* buyAmount is positive.                                                  *)
(***************************************************************************)
TradeRecordOf(isSell, amount, solAmount) ==
    LET price == IF amount = Zero THEN Zero ELSE RDiv(solAmount, amount)
    IN  [buyPriceSol |-> IF isSell THEN Zero ELSE price,
         buyAmount |-> IF isSell THEN Zero ELSE amount,
         sellPriceSol |-> IF isSell THEN price ELSE Zero,
         sellAmount |-> IF isSell THEN amount ELSE Zero]

calculateProfitLoss(records, svc, mint, isSell, amount, solAmount) ==
    [records EXCEPT ![svc][mint] = Append(@, TradeRecordOf(isSell, amount, solAmount))]

\* `this.tradeRecords[mint].filter(t => t.buyAmount > 0)`
BuyTrades(recs) == SelectSeq(recs, LAMBDA t : RLt(Zero, t.buyAmount))

(***************************************************************************)
(* Ledger updates.                                                         *)
(***************************************************************************)
AddTo(ledger, svc, mint, field, qty) ==
    [ledger EXCEPT ![svc][mint][field] = RAdd(@, qty)]

\* `bought = realBalance > 0 ? realBalance : tokenAmount * TRADE_PERCENTAGE`
\* (RaydiumService line 353, PumpSwapService lines 395, 521, 622)
BoughtAfterBuy(realBalance, tokenAmount, tradePercentage) ==
    IF RLt(Zero, realBalance) THEN realBalance ELSE RMul(tokenAmount, tradePercentage)

SetBought(ledger, svc, mint, qty) ==
    [ledger EXCEPT ![svc][mint].bought = qty]

(***************************************************************************)
(* Sizing.                                                                 *)
(***************************************************************************)
\* buy: RaydiumService lines 329-331, PumpSwapService lines 349-351
TradeAmountLamports(solAmount, tradePercentage) ==
    RFloor(RMul(RMul(solAmount, tradePercentage), RInt(LAMPORTS_PER_SOL)))

TradeAmountSolRounded(solAmount, tradePercentage) ==
    Rat(TradeAmountLamports(solAmount, tradePercentage), LAMPORTS_PER_SOL)

\* PumpSwapSDK.createBuyInstruction: max_quote_amount_in of the buy instruction,
\* `solLamports.mul(new BN(Math.floor(1 + slippage * 10000))).div(new BN(10000))`
MaxQuoteAmountIn(amountSol, slippage) ==
    LET k == RFloor(RAdd(One, RMul(slippage, RInt(10000))))
    IN  (amountSol \div 10000) * k + ((amountSol % 10000) * k) \div 10000

\* the native amount of the buy request: the input amount of the aggregator quote
\* that is executed, or max_quote_amount_in of the direct pool instruction
BuyAmountIn(path, solAmount, tradePercentage, slippage) ==
    IF path = "direct"
    THEN MaxQuoteAmountIn(TradeAmountLamports(solAmount, tradePercentage), slippage)
    ELSE TradeAmountLamports(solAmount, tradePercentage)

\* the reserve alone, whatever the trade
RequiredSolNoSpend(isBuy, solAmount, tradePercentage, slippage) ==
    FEE_RESERVE

\* RaydiumService line 316, PumpSwapService line 335
RequiredSol(isBuy, solAmount, tradePercentage, slippage) ==
    IF isBuy
    THEN RAdd(RMul(RMul(solAmount, tradePercentage), RAdd(One, slippage)), FEE_RESERVE)
    ELSE FEE_RESERVE

\* sell: RaydiumService lines 375-401 (PumpSwapService lines 418-444, 543-569, 644-670)
\* sourceSoldNow is sourceTokenBalances[mint].sold read at line 393
IsLastSale(tokenAmount, sourceInitialBought, sourceSoldNow) ==
    LET sellPercentage == RDiv(tokenAmount, sourceInitialBought)
        remainingPercentage == RDiv(RSub(sourceInitialBought, sourceSoldNow), sourceInitialBought)
    IN  RLt(RAbs(RSub(sellPercentage, remainingPercentage)), LAST_SALE_TOLERANCE)

ClampedSellAmount(tokenAmount, sourceInitialBought, targetInitialBought, targetSold, realBalance) ==
    LET sellPercentage == RDiv(tokenAmount, sourceInitialBought)
        targetRemaining == RMax(Zero, realBalance)
        raw == RMul(targetInitialBought, sellPercentage)
        totalSellable == RSub(targetInitialBought, targetSold)
        a1 == IF RLt(totalSellable, raw) THEN totalSellable ELSE raw
    IN  IF RLt(targetRemaining, a1) THEN targetRemaining ELSE a1

SellSizing(tokenAmount, sourceInitialBought, targetInitialBought, targetSold, sourceSoldNow, realUnits, decimals) ==
    LET realBalance == Rat(realUnits, Pow10(decimals))
        clamped == ClampedSellAmount(tokenAmount, sourceInitialBought, targetInitialBought,
                                     targetSold, realBalance)
        last == IsLastSale(tokenAmount, sourceInitialBought, sourceSoldNow)
    IN  IF RLe(RMax(Zero, realBalance), Zero)
        THEN [reject |-> "no_tokens_to_sell", sellAmount |-> Zero, units |-> 0,
              isLastSale |-> FALSE, realBalance |-> realBalance]
        ELSE IF RLe(clamped, Zero)
        THEN [reject |-> "invalid_sell_amount", sellAmount |-> clamped, units |-> 0,
              isLastSale |-> FALSE, realBalance |-> realBalance]
        ELSE IF last
        THEN [reject |-> "none", sellAmount |-> realBalance, units |-> realUnits,
              isLastSale |-> TRUE, realBalance |-> realBalance]
        ELSE [reject |-> "none", sellAmount |-> clamped,
              units |-> RCeil(RMul(clamped, RInt(Pow10(decimals)))),
              isLastSale |-> FALSE, realBalance |-> realBalance]


(***************************************************************************)
(* RaydiumService.processTransaction, one action per await.                *)
(***************************************************************************)
Parsed(r) == ParseSwap(TxOf(r.sig))

\* a fetch loop of one attempt more
MoreAttemptsOneMore(attempt) == attempt + 1 < MAX_FETCH_ATTEMPTS + 1

\* `for (let attempt = 0; attempt < 5; attempt++)`, RaydiumService line 217 and
\* PumpSwapService line 236: after the failed attempt numbered attempt (from 0), is
\* there another one
MoreAttempts(attempt) == attempt + 1 < MAX_FETCH_ATTEMPTS

\* lines 217-311: the fetch loop, classification, the guard mark and the parse
RayFetch(h) ==
    /\ handlers[h].pc = "ray_fetch"
    /\ \E res \in FetchResults :
        LET r == handlers[h]
            tx == TxOf(r.sig)
            p == ParseSwap(tx)
        IN  CASE res = "throw" -> RouterCatch(h, r) /\ UNCHANGED effects
              [] res = "missing" ->
                    IF MoreAttempts(r.attempt)
                    THEN /\ Continue(h, [r EXCEPT !.attempt = @ + 1], processedSignatures)
                         /\ UNCHANGED effects
                    ELSE /\ RouterReturn(h, r, "transaction_invalid", processedSignatures)
                         /\ effects' = EffectsOn(effects, r, {"gaveUp"})
              [] res = "ok" ->
                    IF ~isRaydium(tx, r.pool)
                    THEN /\ RouterReturn(h, r, "not_raydium_swap", processedSignatures)
                         /\ UNCHANGED effects
                    ELSE IF tx.feePayer # TARGET_WALLET
                    THEN /\ RouterReturn(h, r, "not_target_wallet", processedSignatures)
                         /\ UNCHANGED effects
                    ELSE IF p.inputMint = SOL_MINT /\ p.outputMint = SOL_MINT
                    THEN /\ RouterReturn(h, r, "no_token_swap",
                                         MarkProcessed(processedSignatures, r.sig))
                         /\ effects' = EffectsOn(effects, r, {"marked"})
                    ELSE /\ Continue(h, [r EXCEPT !.pc = "ray_solBalance"],
                                     MarkProcessed(processedSignatures, r.sig))
                         /\ effects' = EffectsOn(effects, r, {"cls", "marked"})
    /\ UNCHANGED <<tradeRecords, feedVars, landed, latest, deliveries, sourceTokenBalances, tokenBalances,
                   redeliveryEffects>>

\* lines 315-344 (buy) and 315-376 (sell)
RaySolBalance(h) ==
    /\ handlers[h].pc = "ray_solBalance"
    /\ \E solBalance \in SolBalances :
        LET r == handlers[h]
            p == Parsed(r)
            requiredSol == RequiredSol(p.isBuy, p.solAmount, RAYDIUM_TRADE_PERCENTAGE,
                                       RAYDIUM_SLIPPAGE)
            src == AddTo(sourceTokenBalances, "raydium", p.mint, "sold", p.tokenAmount)
            sourceInitialBought == src["raydium"][p.mint].bought
            targetInitialBought == tokenBalances["raydium"][p.mint].bought
        IN  IF RLt(solBalance, requiredSol)     \* a throw is caught at line 424: same return
            THEN /\ RouterReturn(h, r, "insufficient_sol_balance", processedSignatures)
                 /\ Effects(r, {"short"})
                 /\ UNCHANGED sourceTokenBalances
            ELSE IF p.isBuy
            THEN /\ IF RLt(TradeAmountSolRounded(p.solAmount, RAYDIUM_TRADE_PERCENTAGE),
                           MIN_SWAP_AMOUNT)
                    THEN RouterReturn(h, r, "trade_amount_below_minimum", processedSignatures)
                    ELSE Continue(h, [r EXCEPT !.pc = "ray_quoteBuy",
                                               !.solBalance = solBalance],
                                  processedSignatures)
                 /\ UNCHANGED <<sourceTokenBalances, effects, redeliveryEffects>>
            ELSE IF p.isSell
            THEN /\ sourceTokenBalances' = src
                 /\ Effects(r, {"src"})
                 /\ IF RLe(sourceInitialBought, Zero) \/ RLe(targetInitialBought, Zero)
                    THEN RouterReturn(h, r, "invalid_initial_balances_sell",
                                      processedSignatures)
                    ELSE Continue(h, [r EXCEPT !.pc = "ray_sellBalance",
                                               !.solBalance = solBalance,
                                               !.sourceInitialBought = sourceInitialBought,
                                               !.sourceSold = src["raydium"][p.mint].sold,
                                               !.targetInitialBought = targetInitialBought,
                                               !.targetSold =
                                                   tokenBalances["raydium"][p.mint].sold],
                                  processedSignatures)
            ELSE /\ RouterReturn(h, r, "neither", processedSignatures)
                 /\ UNCHANGED <<sourceTokenBalances, effects, redeliveryEffects>>
    /\ UNCHANGED <<tradeRecords, feedVars, landed, latest, deliveries, tokenBalances>>

\* lines 340-349: the quote arrives, the source purchase is recorded, the swap is sent
RayQuoteBuy(h) ==
    /\ handlers[h].pc = "ray_quoteBuy"
    /\ \E quoted \in BOOLEAN :
        LET r == handlers[h]
            p == Parsed(r)
        IN  IF ~quoted
            THEN /\ RouterReturn(h, r, "quote_failed_buy", processedSignatures)
                 /\ UNCHANGED <<sourceTokenBalances, effects, redeliveryEffects>>
            ELSE /\ sourceTokenBalances' =
                        AddTo(sourceTokenBalances, "raydium", p.mint, "bought", p.tokenAmount)
                 /\ Effects(r, {"src"})
                 /\ Continue(h, [r EXCEPT !.pc = "ray_swapBuy",
                                            !.amountIn = BuyAmountIn("quote", p.solAmount,
                                                RAYDIUM_TRADE_PERCENTAGE, RAYDIUM_SLIPPAGE)],
                             processedSignatures)
    /\ UNCHANGED <<tradeRecords, feedVars, landed, latest, deliveries, tokenBalances>>

\* lines 349-352 and executeJupiterSwap lines 166-205
RaySwapBuy(h) ==
    /\ handlers[h].pc = "ray_swapBuy"
    /\ \E res \in SwapResults :
        LET r == handlers[h]
            sent == [r EXCEPT !.swaps = @ + 1]
        IN  CASE res = "failed" ->
                    /\ RouterReturn(h, r, "buy_transaction_failed", processedSignatures)
                    /\ UNCHANGED <<effects, redeliveryEffects>>
              [] res = "unconfirmed" ->
                    /\ RouterReturn(h, sent, "buy_transaction_failed", processedSignatures)
                    /\ Effects(r, {"swaps"})
              [] res = "ok" ->
                    /\ Continue(h, [sent EXCEPT !.pc = "ray_boughtBalance"], processedSignatures)
                    /\ Effects(r, {"swaps", "conf", "ids"})
    /\ UNCHANGED <<tradeRecords, feedVars, landed, latest, deliveries, sourceTokenBalances, tokenBalances>>

\* lines 352-357: the live balance is read and stored as the controlled `bought`,
\* then the notifier is called
RayBoughtBalance(h) ==
    /\ handlers[h].pc = "ray_boughtBalance"
    /\ \E units \in LiveUnits, note \in NotifyResults :
        LET r == handlers[h]
            p == Parsed(r)
            realBalance == Rat(units, Pow10(DecimalsOf(p.mint)))
        IN  /\ tokenBalances' = SetBought(tokenBalances, "raydium", p.mint,
                    BoughtAfterBuy(realBalance, p.tokenAmount, RAYDIUM_TRADE_PERCENTAGE))
            /\ Effects(r, {"ctl"} \cup NoteKinds(sendTelegramMessage(note)))
            /\ RouterReturn(h, r, "buy_done", processedSignatures)
    /\ UNCHANGED <<tradeRecords, feedVars, landed, latest, deliveries, sourceTokenBalances>>

\* lines 376-408: the live balance arrives, the sell is sized, the quote is requested
RaySellBalance(h) ==
    /\ handlers[h].pc = "ray_sellBalance"
    /\ \E units \in LiveUnits :
        LET r == handlers[h]
            p == Parsed(r)
            z == SellSizing(p.tokenAmount, r.sourceInitialBought, r.targetInitialBought, r.targetSold, sourceTokenBalances["raydium"][p.mint].sold, units, DecimalsOf(p.mint))
        IN  IF z.reject # "none"
            THEN RouterReturn(h, r, z.reject, processedSignatures)
            ELSE Continue(h, [r EXCEPT !.pc = "ray_quoteSell", !.realBalance = z.realBalance,
                                       !.sellAmount = z.sellAmount, !.sellUnits = z.units,
                                       !.isLastSale = z.isLastSale],
                          processedSignatures)
    /\ UNCHANGED <<tradeRecords, feedVars, landed, latest, deliveries, sourceTokenBalances, tokenBalances, effects,
                   redeliveryEffects>>

\* lines 404-410
RayQuoteSell(h) ==
    /\ handlers[h].pc = "ray_quoteSell"
    /\ \E quoted \in BOOLEAN :
        LET r == handlers[h]
        IN  IF ~quoted
            THEN RouterReturn(h, r, "quote_failed_sell", processedSignatures)
            ELSE Continue(h, [r EXCEPT !.pc = "ray_swapSell"], processedSignatures)
    /\ UNCHANGED <<tradeRecords, feedVars, landed, latest, deliveries, sourceTokenBalances, tokenBalances, effects,
                   redeliveryEffects>>

\* lines 410-422: the swap answers, the sale is accounted, the notifier is called
RaySwapSell(h) ==
    /\ handlers[h].pc = "ray_swapSell"
    /\ \E res \in SwapResults, note \in NotifyResults, received \in ReceivedSolAmounts :
        LET r == handlers[h]
            p == Parsed(r)
            sent == [r EXCEPT !.swaps = @ + 1]
            \* line 412
            solAmount == IF RLt(Zero, received) THEN received ELSE p.solAmount
        IN  CASE res = "failed" ->
                    /\ received = Zero
                    /\ RouterReturn(h, r, "sell_transaction_failed", processedSignatures)
                    /\ UNCHANGED <<tokenBalances, tradeRecords, effects, redeliveryEffects>>
              [] res = "unconfirmed" ->
                    /\ received = Zero
                    /\ RouterReturn(h, sent, "sell_transaction_failed", processedSignatures)
                    /\ Effects(r, {"swaps"})
                    /\ UNCHANGED <<tokenBalances, tradeRecords>>
              [] res = "ok" ->
                    /\ tokenBalances' =
                            AddTo(tokenBalances, "raydium", p.mint, "sold", r.sellAmount)
                    /\ tradeRecords' = calculateProfitLoss(tradeRecords, "raydium", p.mint,
                                                           TRUE, r.sellAmount, solAmount)
                    /\ Effects(r, {"swaps", "conf", "ids", "ctl"}
                                  \cup NoteKinds(sendTelegramMessage(note)))
                    /\ RouterReturn(h, sent, "sell_done", processedSignatures)
    /\ UNCHANGED <<feedVars, landed, latest, deliveries, sourceTokenBalances>>

(***************************************************************************)
(* PumpSwapService.processTransaction.                                     *)
(***************************************************************************)
\* lines 235-330: the fetch loop, fee payer, classification, the guard mark and the parse
PsFetch(h) ==
    /\ handlers[h].pc = "ps_fetch"
    /\ \E res \in FetchResults :
        LET r == handlers[h]
            tx == TxOf(r.sig)
            p == ParseSwap(tx)
        IN  CASE res = "throw" -> RouterCatch(h, r) /\ UNCHANGED effects
              [] res = "missing" ->
                    IF MoreAttempts(r.attempt)
                    THEN /\ Continue(h, [r EXCEPT !.attempt = @ + 1], processedSignatures)
                         /\ UNCHANGED effects
                    ELSE /\ RouterReturn(h, r, "transaction_invalid", processedSignatures)
                         /\ effects' = EffectsOn(effects, r, {"gaveUp"})
              [] res = "ok" ->
                    IF tx.feePayer # TARGET_WALLET
                    THEN /\ RouterReturn(h, r, "not_target_wallet", processedSignatures)
                         /\ UNCHANGED effects
                    ELSE IF ~isPumpSwap(tx, r.pool)
                    THEN /\ RouterReturn(h, r, "not_pumpswap", processedSignatures)
                         /\ UNCHANGED effects
                    ELSE IF p.inputMint = SOL_MINT /\ p.outputMint = SOL_MINT
                    THEN /\ RouterReturn(h, r, "no_token_swap",
                                         MarkProcessed(processedSignatures, r.sig))
                         /\ effects' = EffectsOn(effects, r, {"marked"})
                    ELSE /\ Continue(h, [r EXCEPT !.pc = "ps_pool"],
                                     MarkProcessed(processedSignatures, r.sig))
                         /\ effects' = EffectsOn(effects, r, {"cls", "marked"})
    /\ UNCHANGED <<tradeRecords, feedVars, landed, latest, deliveries, sourceTokenBalances, tokenBalances,
                   redeliveryEffects>>

\* lines 334-417 (direct pool), 513-541 (invalid pool, quote), 614-642 (quote only):
\* the balance, pool and validation answers arrive (they read nothing of the bot's
\* state), then the source ledger is updated and the next request is made
PsPool(h) ==
    /\ handlers[h].pc = "ps_pool"
    /\ \E solBalance \in SolBalances, units \in LiveUnits, pool \in PoolResults :
        LET r == handlers[h]
            p == Parsed(r)
            requiredSol == RequiredSol(p.isBuy, p.solAmount, TRADE_PERCENTAGE, SLIPPAGE)
            srcSold == AddTo(sourceTokenBalances, "pumpswap", p.mint, "sold", p.tokenAmount)
            sourceInitialBought == srcSold["pumpswap"][p.mint].bought
            targetInitialBought == tokenBalances["pumpswap"][p.mint].bought
        IN  IF \/ RLt(solBalance, requiredSol)
               \/ pool = "none"
               \/ p.isBuy /\ RLt(TradeAmountSolRounded(p.solAmount, TRADE_PERCENTAGE),
                                 MIN_TRADE_AMOUNT)
               \/ ~p.isBuy /\ ~p.isSell
            THEN /\ RouterReturn(h, r, "skipped", processedSignatures)
                 /\ IF RLt(solBalance, requiredSol)
                    THEN Effects(r, {"short"})
                    ELSE UNCHANGED <<effects, redeliveryEffects>>
                 /\ UNCHANGED sourceTokenBalances
            ELSE IF p.isBuy
            THEN /\ sourceTokenBalances' =
                        AddTo(sourceTokenBalances, "pumpswap", p.mint, "bought", p.tokenAmount)
                 /\ Effects(r, {"src"})
                 /\ Continue(h, [r EXCEPT !.pc = IF pool = "direct" THEN "ps_ensureAta"
                                                  ELSE "ps_swapBuy",
                                            !.path = pool,
                                            !.solBalance = solBalance,
                                            !.amountIn = BuyAmountIn(pool, p.solAmount,
                                                TRADE_PERCENTAGE, SLIPPAGE)],
                             processedSignatures)
            ELSE /\ sourceTokenBalances' = srcSold
                 /\ Effects(r, {"src"})
                 /\ IF RLe(sourceInitialBought, Zero) \/ RLe(targetInitialBought, Zero)
                    THEN RouterReturn(h, r, "invalid_initial_balances_sell",
                                      processedSignatures)
                    ELSE Continue(h, [r EXCEPT !.pc = "ps_sellBalance", !.path = pool,
                                               !.solBalance = solBalance,
                                               !.quoteUnits = units,
                                               !.sourceInitialBought = sourceInitialBought,
                                               !.sourceSold = srcSold["pumpswap"][p.mint].sold,
                                               !.targetInitialBought = targetInitialBought,
                                               !.targetSold =
                                                   tokenBalances["pumpswap"][p.mint].sold],
                                  processedSignatures)
    /\ UNCHANGED <<tradeRecords, feedVars, landed, latest, deliveries, tokenBalances>>

\* a confirmation loop of one poll more
MorePollsOneMore(attempt) == attempt + 1 < MAX_CONFIRM_POLLS + 1

\* `for (let attempt = 0; attempt < 5; attempt++)` of lines 146, 213, 477, 575 and
\* 676: after the poll numbered attempt (from 0) answered "not confirmed", is there
\* another one?
MorePolls(attempt) == attempt + 1 < MAX_CONFIRM_POLLS

\* lines 388-389 (buy) and 447 (sell): where the handler goes once the account is
\* there
AfterEnsure(pc, isBuy) ==
    IF pc \in {"ps_ensureAta", "ps_confirmAta"} THEN "ps_ensureWsol"
    ELSE IF isBuy THEN "ps_swapBuy"
    ELSE "ps_swapSell"

\* ensureAssociatedTokenAccount, lines 131-144, and ensureWrappedSolAccount, lines
\* 159-211: the token accounts of the owner are read; the function returns, or
\* sends the transaction that creates the account (and wraps the SOL); a throw is
\* caught at line 714
PsEnsureAccount(h) ==
    /\ handlers[h].pc \in {"ps_ensureAta", "ps_ensureWsol"}
    /\ \E res \in EnsureResults :
        LET r == handlers[h]
            p == Parsed(r)
        IN  CASE res = "threw" ->
                    RouterReturn(h, r, "transaction_processing_failed", processedSignatures)
              [] res = "ready" ->
                    Continue(h, [r EXCEPT !.pc = AfterEnsure(r.pc, p.isBuy)],
                             processedSignatures)
              [] res = "sent" ->
                    Continue(h, [r EXCEPT !.pc = IF r.pc = "ps_ensureAta"
                                               THEN "ps_confirmAta"
                                               ELSE "ps_confirmWsol",
                                          !.attempt = 0],
                             processedSignatures)
    /\ UNCHANGED <<tradeRecords, feedVars, landed, latest, deliveries, sourceTokenBalances,
                   tokenBalances, effects, redeliveryEffects>>

\* lines 145-154 and 212-221: one answer of checkTransactionStatus in the loop that
\* waits for the account's transaction; after the last poll the function throws
\* (caught at line 714)
PsConfirmAccount(h) ==
    /\ handlers[h].pc \in {"ps_confirmAta", "ps_confirmWsol"}
    /\ \E poll \in PollResults :
        LET r == handlers[h]
            p == Parsed(r)
        IN  CASE poll = "threw" ->
                    /\ RouterReturn(h, r, "transaction_processing_failed",
                                    processedSignatures)
                    /\ UNCHANGED effects
              [] poll = "confirmed" ->
                    /\ Continue(h, [r EXCEPT !.pc = AfterEnsure(r.pc, p.isBuy)],
                                processedSignatures)
                    /\ UNCHANGED effects
              [] poll = "pending" ->
                    IF MorePolls(r.attempt)
                    THEN /\ Continue(h, [r EXCEPT !.attempt = @ + 1], processedSignatures)
                         /\ UNCHANGED effects
                    ELSE /\ RouterReturn(h, r, IF r.pc = "ps_confirmAta"
                                               THEN "create_ata_failed"
                                               ELSE "init_wsol_failed",
                                         processedSignatures)
                         /\ effects' = EffectsOn(effects, r, {"unconfirmed"})
    /\ UNCHANGED <<tradeRecords, feedVars, landed, latest, deliveries, sourceTokenBalances,
                   tokenBalances, redeliveryEffects>>

\* lines 388-393 (pumpSwapSDK.buy) and 517-518, 616-617 (jupiterSDK.executeSwap)
PsSwapBuy(h) ==
    /\ handlers[h].pc = "ps_swapBuy"
    /\ LET r == handlers[h]
           sent == [r EXCEPT !.swaps = @ + 1]
       IN  IF r.path = "direct"
           THEN \E res \in BundleResults :
                CASE res = "threw" ->
                        /\ RouterReturn(h, r, "buy_failed", processedSignatures)
                        /\ UNCHANGED <<effects, redeliveryEffects>>
                  [] res = "rejected" ->
                        /\ Continue(h, [r EXCEPT !.pc = "ps_boughtBalance"],
                                    processedSignatures)
                        /\ UNCHANGED <<effects, redeliveryEffects>>
                  [] res = "ok" ->
                        /\ Continue(h, [sent EXCEPT !.pc = "ps_boughtBalance"],
                                    processedSignatures)
                        /\ Effects(r, {"swaps", "ids"})
           ELSE \E res \in SwapResults :
                CASE res = "failed" ->
                        /\ RouterReturn(h, r, "buy_transaction_failed", processedSignatures)
                        /\ UNCHANGED <<effects, redeliveryEffects>>
                  [] res = "unconfirmed" ->
                        /\ RouterReturn(h, sent, "buy_transaction_failed",
                                        processedSignatures)
                        /\ Effects(r, {"swaps"})
                  [] res = "ok" ->
                        /\ Continue(h, [sent EXCEPT !.pc = "ps_boughtBalance"],
                                    processedSignatures)
                        /\ Effects(r, {"swaps", "conf", "ids"})
    /\ UNCHANGED <<tradeRecords, feedVars, landed, latest, deliveries, sourceTokenBalances, tokenBalances>>

\* lines 393-398, 519-527, 618-626: the live balance is read and stored as `bought`,
\* then the notifier is called
PsBoughtBalance(h) ==
    /\ handlers[h].pc = "ps_boughtBalance"
    /\ \E units \in LiveUnits, threw \in BOOLEAN, note \in NotifyResults :
        LET r == handlers[h]
            p == Parsed(r)
            realBalance == Rat(units, Pow10(DecimalsOf(p.mint)))
        IN  IF threw
            THEN /\ RouterReturn(h, r, "buy_failed", processedSignatures)
                 /\ UNCHANGED <<tokenBalances, effects, redeliveryEffects>>
            ELSE /\ tokenBalances' = SetBought(tokenBalances, "pumpswap", p.mint,
                        BoughtAfterBuy(realBalance, p.tokenAmount, TRADE_PERCENTAGE))
                 /\ Effects(r, {"ctl"} \cup NoteKinds(sendTelegramNotification(note)))
                 /\ RouterReturn(h, r, "buy_done", processedSignatures)
    /\ UNCHANGED <<tradeRecords, feedVars, landed, latest, deliveries, sourceTokenBalances>>

\* lines 418-447, 543-569, 644-670: the live balance arrives and the sell is sized.
\* On the quote paths the swap executes the quote requested at line 361 for the
\* balance read at line 360, whatever sellAmountInUnits is.
PsSellBalance(h) ==
    /\ handlers[h].pc = "ps_sellBalance"
    /\ \E units \in LiveUnits :
        LET r == handlers[h]
            p == Parsed(r)
            z == SellSizing(p.tokenAmount, r.sourceInitialBought, r.targetInitialBought, r.targetSold, sourceTokenBalances["pumpswap"][p.mint].sold, units, DecimalsOf(p.mint))
        IN  IF z.reject # "none"
            THEN RouterReturn(h, r, z.reject, processedSignatures)
            ELSE Continue(h, [r EXCEPT !.pc = IF r.path = "direct" THEN "ps_ensureWsol"
                                             ELSE "ps_swapSell",
                                       !.realBalance = z.realBalance,
                                       !.sellAmount = z.sellAmount,
                                       !.sellUnits = IF r.path = "direct" THEN z.units
                                                     ELSE r.quoteUnits,
                                       !.isLastSale = z.isLastSale],
                          processedSignatures)
    /\ UNCHANGED <<tradeRecords, feedVars, landed, latest, deliveries, sourceTokenBalances, tokenBalances, effects,
                   redeliveryEffects>>

\* lines 449-475 (sendTransaction), 571-572 and 672-673 (jupiterSDK.executeSwap):
\* the sell is sent; it is rejected before it is sent (a throw caught at line 507,
\* no txId at lines 572 and 673), or a signature comes back
PsSwapSell(h) ==
    /\ handlers[h].pc = "ps_swapSell"
    /\ \E res \in {"failed", "sent"} :
        LET r == handlers[h]
        IN  IF res = "failed"
            THEN /\ RouterReturn(h, r, "sell_failed", processedSignatures)
                 /\ UNCHANGED <<effects, redeliveryEffects>>
            ELSE /\ Continue(h, [r EXCEPT !.pc = "ps_confirmSell", !.attempt = 0,
                                          !.swaps = @ + 1],
                             processedSignatures)
                 /\ Effects(r, {"swaps"})
    /\ UNCHANGED <<tradeRecords, feedVars, landed, latest, deliveries, sourceTokenBalances,
                   tokenBalances>>

\* lines 476-506, 574-603 and 675-704: one answer of checkTransactionStatus in the
\* loop that waits for the sell.  After the last poll the handler returns; once
\* confirmed the sell is accounted, the balance is read again (a throw is caught at
\* line 507 or 714) and the notifier is called
PsConfirmSell(h) ==
    /\ handlers[h].pc = "ps_confirmSell"
    /\ \E poll \in PollResults, threw \in BOOLEAN, note \in NotifyResults,
          received \in ReceivedSolAmounts :
        LET r == handlers[h]
            p == Parsed(r)
        IN  CASE poll = "threw" ->
                    /\ received = Zero
                    /\ RouterReturn(h, r, "sell_failed", processedSignatures)
                    /\ UNCHANGED <<tokenBalances, tradeRecords, effects, redeliveryEffects>>
              [] poll = "pending" ->
                    /\ received = Zero
                    /\ IF MorePolls(r.attempt)
                       THEN /\ Continue(h, [r EXCEPT !.attempt = @ + 1],
                                        processedSignatures)
                            /\ UNCHANGED effects
                       ELSE /\ RouterReturn(h, r, "sell_transaction_not_confirmed",
                                            processedSignatures)
                            /\ effects' = EffectsOn(effects, r, {"unconfirmed"})
                    /\ UNCHANGED <<tokenBalances, tradeRecords, redeliveryEffects>>
              [] poll = "confirmed" ->
                    /\ tokenBalances' =
                            AddTo(tokenBalances, "pumpswap", p.mint, "sold", r.sellAmount)
                    \* lines 500-503: the record is appended once getTokenBalance answered
                    /\ tradeRecords' =
                            IF threw THEN tradeRecords
                            ELSE calculateProfitLoss(tradeRecords, "pumpswap", p.mint,
                                                     TRUE, r.sellAmount, received)
                    /\ Effects(r, {"conf", "ids", "ctl"}
                                  \cup (IF threw THEN {}
                                        ELSE NoteKinds(sendTelegramNotification(note))))
                    /\ RouterReturn(h, r, "sell_done", processedSignatures)
    /\ UNCHANGED <<feedVars, landed, latest, deliveries, sourceTokenBalances>>

(***************************************************************************)
(* executePumpfunSwap (pumpPortal module, lines 762-820): the accounting   *)
(* done when the trade API answers with a signature.                       *)
(***************************************************************************)
PumpfunAccounting(tokens, action, mint, amount, solAmount) ==
    IF action = "buy"
    THEN [tokens EXCEPT ![mint].costInSol = RAdd(@, amount)]
    ELSE IF RLt(Zero, solAmount) /\ RLt(Zero, tokens[mint].bought)
    THEN [tokens EXCEPT ![mint].revenueInSol = RAdd(@, solAmount)]
    ELSE tokens

(***************************************************************************)
(* PumpPortalService.processTransaction (main file, lines 81-147).         *)
(***************************************************************************)
\* lines 103-117: mint, amount and direction from the first spl-token transfer
PortalParse(tx) ==
    [found |-> tx.transfer.present /\ tx.transfer.amount # 0,
     mint |-> tx.transfer.mint,
     amount |-> Rat(tx.transfer.amount, 1000000),
     txType |-> IF tx.transfer.source = TARGET_WALLET THEN "sell" ELSE "buy"]

TransactionKey(mint, txType) == <<mint, txType>>

\* line 131: executePumpfunSwap(txType, mint, amount, txType === 'buy'), the amount
\* being the one parsed from the transfer instruction; for a buy it is sent to the
\* trade API with denominatedInSol 'true'
PortalSwapAmount(q) == q.amount

\* lines 96-131: the transaction arrives, is parsed, checked against the composite
\* key, and the swap is requested
PpFetch(h) ==
    /\ handlers[h].pc = "pp_fetch"
    /\ \E res \in FetchResults :
        LET r == handlers[h]
            q == PortalParse(TxOf(r.sig))
        IN  CASE res = "throw" -> RouterCatch(h, r)
              [] res = "missing" -> RouterReturn(h, r, "invalid_tx", processedSignatures)
              [] res = "ok" ->
                    IF ~q.found
                    THEN RouterReturn(h, r, "no_mint_or_amount", processedSignatures)
                    ELSE IF HasProcessed(processedTransactions,
                                         TransactionKey(q.mint, q.txType))
                    THEN RouterReturn(h, r, "transaction_already_processed",
                                      processedSignatures)
                    ELSE Continue(h, [r EXCEPT !.pc = "pp_swap"], processedSignatures)
    /\ UNCHANGED <<tradeRecords, feedVars, landed, latest, deliveries, sourceTokenBalances, tokenBalances,
                   effects, redeliveryEffects>>

\* lines 131-146: executePumpfunSwap answers (its notifier is called inside its try,
\* lines 762-820); on a signature both sets are marked
PpSwap(h) ==
    /\ handlers[h].pc = "pp_swap"
    /\ \E res \in PumpfunResults, solAmount \in PumpfunSolAmounts, note \in NotifyResults :
        LET r == handlers[h]
            q == PortalParse(TxOf(r.sig))
            sent == [r EXCEPT !.swaps = @ + 1]
            n == feedSendTelegramMessage(note)
        IN  IF res = "ok"
            THEN /\ feedTokenBalances' =
                        PumpfunAccounting(feedTokenBalances, q.txType, q.mint,
                                          PortalSwapAmount(q), solAmount)
                 /\ IF n.threw
                    THEN /\ Effects(r, {"swaps"} \cup NoteKinds(n))
                         /\ RouterReturn(h, sent, "swap_failed", processedSignatures)
                         /\ UNCHANGED processedTransactions
                    ELSE /\ processedTransactions' =
                                processedTransactions \cup {TransactionKey(q.mint, q.txType)}
                         /\ Effects(r, {"swaps", "ids"} \cup NoteKinds(n))
                         /\ RouterReturn(h, sent, "swap_executed",
                                         MarkProcessed(processedSignatures, r.sig))
            ELSE /\ RouterReturn(h, r, "swap_failed", processedSignatures)
                 /\ UNCHANGED <<feedTokenBalances, processedTransactions, effects,
                                redeliveryEffects>>
    /\ UNCHANGED <<tradeRecords, feedProcessedSignatures, feedSourceTokenBalances, landed, latest,
                   deliveries, sourceTokenBalances, tokenBalances>>

(***************************************************************************)
(* The PumpPortal feed (pumpPortal module): handleWebSocketMessage, lines  *)
(* 881-958, started for every message by ws.on('message'), lines 969-973.  *)
(***************************************************************************)
FeedEnd(h) == handlers' = [handlers EXCEPT ![h] = Idle]

\* line 954: processedSignatures.add(signature), and handleWebSocketMessage returns
FeedReturn(h, r) ==
    /\ feedProcessedSignatures' = MarkProcessed(feedProcessedSignatures, r.sig)
    /\ returned' = returned \cup {r.sig}
    /\ FeedEnd(h)

\* an awaited call throws: handleWebSocketMessage has no try, and neither has the
\* listener of lines 969-973 that awaits it, so the listener's promise is rejected
\* with nothing to handle it
FeedThrow(h, r) ==
    /\ UNCHANGED <<feedProcessedSignatures, returned>>
    /\ FeedEnd(h)

\* executePumpfunSwap for pool 'pump', executeRaydiumSwap (lines 823-878) otherwise
FeedSwapResults(pool) == IF pool = "pump" THEN PumpfunResults ELSE SwapResults

\* a trade message arrives; lines 882-926 run up to the first await
FeedMessage(h, s) ==
    /\ Free(h)
    /\ \A g \in H : g < h => ~Free(g)
    /\ deliveries < MaxDeliveries
    /\ deliveries' = deliveries + 1
    /\ LET m == FeedMsg(s)
           r == [Idle EXCEPT !.svc = "feed", !.sig = s, !.pool = m.pool,
                             !.redelivered = s \in returned]
           srcSold == [feedSourceTokenBalances EXCEPT ![m.mint].sold = RAdd(@, m.tokenAmount)]
       IN  IF HasProcessed(feedProcessedSignatures, s)
              \/ m.traderPublicKey # PUMP_PORTAL_SOURCE_WALLET
           THEN /\ returned' = returned \cup {s}
                /\ effects' = Again(s)
                /\ UNCHANGED <<handlers, feedSourceTokenBalances, redeliveryEffects>>
           ELSE IF m.txType = "buy"
           THEN /\ feedSourceTokenBalances' =
                       [feedSourceTokenBalances EXCEPT ![m.mint].bought = RAdd(@, m.tokenAmount)]
                /\ effects' = EffectsOn(Again(s), r, {"src", "cls"} \cup Overlap(h, s))
                /\ redeliveryEffects' = RedeliveryEffects(r)
                /\ handlers' = [handlers EXCEPT ![h] = [r EXCEPT !.pc = "feed_swapBuy"]]
                /\ UNCHANGED returned
           ELSE /\ feedSourceTokenBalances' = srcSold
                /\ effects' = EffectsOn(Again(s), r, {"src", "cls"} \cup Overlap(h, s))
                /\ redeliveryEffects' = RedeliveryEffects(r)
                /\ handlers' = [handlers EXCEPT ![h] =
                        [r EXCEPT !.pc = "feed_sellBalance",
                                  !.sourceInitialBought = srcSold[m.mint].bought,
                                  !.sourceSold = srcSold[m.mint].sold,
                                  !.targetSold = feedTokenBalances[m.mint].sold]]
                /\ UNCHANGED returned
    /\ UNCHANGED <<tradeRecords, landed, latest, processedSignatures, sourceTokenBalances, tokenBalances,
                   processedTransactions, feedProcessedSignatures, feedTokenBalances>>

\* lines 904-917 and 954: the buy swap answers; the swap function accounts the cost
\* and calls the notifier inside its try before it returns the signature
FeedSwapBuy(h) ==
    /\ handlers[h].pc = "feed_swapBuy"
    /\ LET r == handlers[h]
           m == FeedMsg(r.sig)
           targetSolAmount == RMul(m.solAmount, PUMP_PORTAL_TRADE_PERCENTAGE)
       IN  \E res \in FeedSwapResults(m.pool), note \in NotifyResults :
            LET n == feedSendTelegramMessage(note)
            IN  CASE res = "ok" ->
                        /\ feedTokenBalances' = PumpfunAccounting(feedTokenBalances, "buy",
                                                                  m.mint, targetSolAmount, Zero)
                        /\ IF n.threw
                           THEN /\ Effects(r, {"swaps"} \cup NoteKinds(n))
                                /\ FeedReturn(h, r)
                           ELSE /\ Effects(r, {"swaps", "ids"} \cup NoteKinds(n))
                                /\ handlers' = [handlers EXCEPT ![h] =
                                        [r EXCEPT !.pc = "feed_boughtBalance", !.swaps = @ + 1]]
                                /\ UNCHANGED <<feedProcessedSignatures, returned>>
                  [] res = "unconfirmed" ->
                        /\ Effects(r, {"swaps"})
                        /\ FeedReturn(h, r)
                        /\ UNCHANGED feedTokenBalances
                  [] res = "failed" ->
                        /\ FeedReturn(h, r)
                        /\ UNCHANGED <<feedTokenBalances, effects, redeliveryEffects>>
    /\ UNCHANGED <<tradeRecords, landed, latest, deliveries, processedSignatures, sourceTokenBalances,
                   tokenBalances, processedTransactions, feedSourceTokenBalances>>

\* lines 911-916 and 954: the live balance arrives and is stored as `bought`; a throw
\* of getTokenBalance leaves handleWebSocketMessage before line 954
FeedBoughtBalance(h) ==
    /\ handlers[h].pc = "feed_boughtBalance"
    /\ \E units \in LiveUnits, threw \in BOOLEAN :
        LET r == handlers[h]
            m == FeedMsg(r.sig)
            realBalance == Rat(units, Pow10(DecimalsOf(m.mint)))
        IN  IF threw
            THEN /\ Effects(r, {"unhandled"})
                 /\ FeedThrow(h, r)
                 /\ UNCHANGED feedTokenBalances
            ELSE /\ feedTokenBalances' =
                        [feedTokenBalances EXCEPT ![m.mint].bought =
                            BoughtAfterBuy(realBalance, m.tokenAmount,
                                           PUMP_PORTAL_TRADE_PERCENTAGE)]
                 /\ Effects(r, {"ctl"})
                 /\ FeedReturn(h, r)
    /\ UNCHANGED <<tradeRecords, landed, latest, deliveries, processedSignatures, sourceTokenBalances,
                   tokenBalances, processedTransactions, feedSourceTokenBalances>>

\* lines 925-942: `sourceSold / sourceInitialBought || 0` is Infinity for a zero
\* divisor (sourceSold is positive once the sell is recorded)
FeedSellAmount(targetRemaining, sourceSold, sourceInitialBought) ==
    IF RLe(sourceInitialBought, Zero) \/ RLe(One, RDiv(sourceSold, sourceInitialBought))
    THEN targetRemaining
    ELSE RMul(RMul(targetRemaining, RDiv(sourceSold, sourceInitialBought)),
              PUMP_PORTAL_TRADE_PERCENTAGE)

\* lines 928-946: the live balance arrives, the sell is sized and the swap requested;
\* the early return of line 932 and a throw of getTokenBalance skip line 954
FeedSellBalance(h) ==
    /\ handlers[h].pc = "feed_sellBalance"
    /\ \E units \in LiveUnits, threw \in BOOLEAN :
        LET r == handlers[h]
            m == FeedMsg(r.sig)
            realBalance == Rat(units, Pow10(DecimalsOf(m.mint)))
            targetRemaining == RSub(realBalance, r.targetSold)
        IN  IF threw
            THEN /\ Effects(r, {"unhandled"})
                 /\ FeedThrow(h, r)
            ELSE IF RLe(targetRemaining, MIN_TOKEN_THRESHOLD)
            THEN /\ FeedEnd(h)
                 /\ returned' = returned \cup {r.sig}
                 /\ UNCHANGED <<feedProcessedSignatures, effects, redeliveryEffects>>
            ELSE /\ handlers' = [handlers EXCEPT ![h] =
                        [r EXCEPT !.pc = "feed_swapSell", !.realBalance = realBalance,
                                  !.sellAmount = FeedSellAmount(targetRemaining, r.sourceSold,
                                                                r.sourceInitialBought)]]
                 /\ UNCHANGED <<feedProcessedSignatures, returned, effects, redeliveryEffects>>
    /\ UNCHANGED <<tradeRecords, landed, latest, deliveries, processedSignatures, sourceTokenBalances,
                   tokenBalances, processedTransactions, feedSourceTokenBalances,
                   feedTokenBalances>>

\* lines 943-954: the sell swap answers, the sale is accounted and the balance is
\* read again for the log; a throw of that read skips line 954
FeedSwapSell(h) ==
    /\ handlers[h].pc = "feed_swapSell"
    /\ \E res \in FeedSwapResults(FeedMsg(handlers[h].sig).pool),
          solAmount \in PumpfunSolAmounts, threw \in BOOLEAN, note \in NotifyResults :
        LET r == handlers[h]
            m == FeedMsg(r.sig)
            n == feedSendTelegramMessage(note)
            accounted == PumpfunAccounting(feedTokenBalances, "sell", m.mint, r.sellAmount,
                                           solAmount)
        IN  CASE res = "ok" ->
                    IF n.threw
                    THEN /\ feedTokenBalances' = accounted
                         /\ Effects(r, {"swaps"} \cup NoteKinds(n))
                         /\ FeedReturn(h, r)
                    ELSE /\ feedTokenBalances' =
                                [accounted EXCEPT ![m.mint].sold = RAdd(@, r.sellAmount)]
                         /\ Effects(r, {"swaps", "ids", "ctl"} \cup NoteKinds(n)
                                       \cup (IF threw THEN {"unhandled"} ELSE {}))
                         /\ IF threw THEN FeedThrow(h, r) ELSE FeedReturn(h, r)
              [] res = "unconfirmed" ->
                    /\ Effects(r, {"swaps"})
                    /\ FeedReturn(h, r)
                    /\ UNCHANGED feedTokenBalances
              [] res = "failed" ->
                    /\ FeedReturn(h, r)
                    /\ UNCHANGED <<feedTokenBalances, effects, redeliveryEffects>>
    /\ UNCHANGED <<tradeRecords, landed, latest, deliveries, processedSignatures, sourceTokenBalances,
                   tokenBalances, processedTransactions, feedSourceTokenBalances>>

(***************************************************************************)
(* The inbound WebSocket closes (main, ws.on('close'), lines 281-284): the *)
(* listener schedules main() again, and main (lines 158-166) builds a new  *)
(* processedSignatures Set, a new processedTransactions Set and new        *)
(* service instances, whose ledgers start empty (RaydiumService lines      *)
(* 35-36, PumpSwapService constructor).  The pumpPortal module's state is  *)
(* module-level and is kept.  The close is taken between invocations: an   *)
(* invocation still in flight would keep the Sets of the main that started *)
(* it.                                                                     *)
(***************************************************************************)
Reconnect ==
    /\ \A h \in H : Free(h)
    /\ processedSignatures' = {}
    /\ processedTransactions' = {}
    /\ sourceTokenBalances' = [v \in Services |-> [m \in Mints |-> ZeroBalance]]
    /\ tokenBalances' = [v \in Services |-> [m \in Mints |-> ZeroBalance]]
    /\ tradeRecords' = NoTradeRecords
    /\ UNCHANGED <<landed, latest, deliveries, handlers, effects, returned, redeliveryEffects,
                   feedProcessedSignatures, feedSourceTokenBalances, feedTokenBalances>>

Next ==
    \/ \E h \in H, s \in Sigs : TxLands(h, s)
    \/ \E h \in H : Redeliver(h)
    \/ \E h \in H : GetSignatures(h)
    \/ \E h \in H : RouterFetch(h)
    \/ \E h \in H : RayFetch(h)
    \/ \E h \in H : RaySolBalance(h)
    \/ \E h \in H : RayQuoteBuy(h)
    \/ \E h \in H : RaySwapBuy(h)
    \/ \E h \in H : RayBoughtBalance(h)
    \/ \E h \in H : RaySellBalance(h)
    \/ \E h \in H : RayQuoteSell(h)
    \/ \E h \in H : RaySwapSell(h)
    \/ \E h \in H : PsFetch(h)
    \/ \E h \in H : PsPool(h)
    \/ \E h \in H : PsEnsureAccount(h)
    \/ \E h \in H : PsConfirmAccount(h)
    \/ \E h \in H : PsSwapBuy(h)
    \/ \E h \in H : PsBoughtBalance(h)
    \/ \E h \in H : PsSellBalance(h)
    \/ \E h \in H : PsSwapSell(h)
    \/ \E h \in H : PsConfirmSell(h)
    \/ \E h \in H : PpFetch(h)
    \/ \E h \in H : PpSwap(h)

Spec == Init /\ [][Next]_vars

FeedNext ==
    \/ \E h \in H, s \in FeedSigs : FeedMessage(h, s)
    \/ \E h \in H : FeedSwapBuy(h)
    \/ \E h \in H : FeedBoughtBalance(h)
    \/ \E h \in H : FeedSellBalance(h)
    \/ \E h \in H : FeedSwapSell(h)

FeedSpec == Init /\ [][FeedNext]_vars

\* the router with its reconnection after a close of the inbound WebSocket
ReconnectNext ==
    \/ Next
    \/ Reconnect

ReconnectSpec == Init /\ [][ReconnectNext]_vars

\* the router when getSignaturesForAddress answers every handler that awaits it
LiveSpec == Init /\ [][Next]_vars /\ WF_vars(\E h \in H : GetSignatures(h))

(***************************************************************************)
(* RaydiumService with a position open: the state Spec reaches when the    *)
(* Raydium buy rb (100 A) has been mirrored, confirmed and accounted with  *)
(* a live balance of 10 A and the notification sent; deliveries are        *)
(* counted from there.  The watched wallet then sells.                     *)
(***************************************************************************)
SellSigs == {"rs50", "rs100"}

SellInit ==
    /\ landed = {"rb"}
    /\ latest = "rb"
    /\ deliveries = 0
    /\ processedSignatures = {"rb"}
    /\ sourceTokenBalances =
            [v \in Services |-> [m \in Mints |->
                IF v = "raydium" THEN [bought |-> RInt(100), sold |-> Zero] ELSE ZeroBalance]]
    /\ tokenBalances =
            [v \in Services |-> [m \in Mints |->
                IF v = "raydium" THEN [bought |-> RInt(10), sold |-> Zero] ELSE ZeroBalance]]
    /\ handlers = [h \in H |-> Idle]
    /\ effects = [s \in AllSigs |->
            IF s = "rb"
            THEN [NoEffects EXCEPT !.seen = 1, !.marked = 1, !.cls = 1, !.src = 1, !.swaps = 1,
                                   !.conf = 1, !.ids = 1, !.ctl = 1, !.note = 1]
            ELSE NoEffects]
    /\ returned = {"rb"}
    /\ redeliveryEffects = 0
    /\ processedTransactions = {}
    /\ feedProcessedSignatures = {}
    /\ feedSourceTokenBalances = [m \in Mints |-> ZeroBalance]
    /\ feedTokenBalances = [m \in Mints |-> ZeroFeedBalance]
    /\ tradeRecords = NoTradeRecords

SellNext ==
    \/ \E h \in H, s \in SellSigs : TxLands(h, s)
    \/ \E h \in H : GetSignatures(h)
    \/ \E h \in H : RouterFetch(h)
    \/ \E h \in H : RayFetch(h)
    \/ \E h \in H : RaySolBalance(h)
    \/ \E h \in H : RaySellBalance(h)
    \/ \E h \in H : RayQuoteSell(h)
    \/ \E h \in H : RaySwapSell(h)

SellSpec == SellInit /\ [][SellNext]_vars

(***************************************************************************)
(* PumpSwapService with a position open: the state Spec reaches when the   *)
(* PumpSwap buy pb (100 A) has been mirrored through the aggregator,       *)
(* confirmed and accounted with a live balance of 10 A and the             *)
(* notification sent; deliveries are counted from there.  The watched      *)
(* wallet then sells a quarter of what it bought.                          *)
(***************************************************************************)
PumpSellInit ==
    /\ landed = {"pb"}
    /\ latest = "pb"
    /\ deliveries = 0
    /\ processedSignatures = {"pb"}
    /\ sourceTokenBalances =
            [v \in Services |-> [m \in Mints |->
                IF v = "pumpswap" THEN [bought |-> RInt(100), sold |-> Zero] ELSE ZeroBalance]]
    /\ tokenBalances =
            [v \in Services |-> [m \in Mints |->
                IF v = "pumpswap" THEN [bought |-> RInt(10), sold |-> Zero] ELSE ZeroBalance]]
    /\ handlers = [h \in H |-> Idle]
    /\ effects = [s \in AllSigs |->
            IF s = "pb"
            THEN [NoEffects EXCEPT !.seen = 1, !.marked = 1, !.cls = 1, !.src = 1, !.swaps = 1,
                                   !.conf = 1, !.ids = 1, !.ctl = 1, !.note = 1]
            ELSE NoEffects]
    /\ returned = {"pb"}
    /\ redeliveryEffects = 0
    /\ processedTransactions = {}
    /\ feedProcessedSignatures = {}
    /\ feedSourceTokenBalances = [m \in Mints |-> ZeroBalance]
    /\ feedTokenBalances = [m \in Mints |-> ZeroFeedBalance]
    /\ tradeRecords = NoTradeRecords

PumpSellNext ==
    \/ \E h \in H, s \in PartialSellSigs : TxLands(h, s)
    \/ \E h \in H : GetSignatures(h)
    \/ \E h \in H : RouterFetch(h)
    \/ \E h \in H : PsFetch(h)
    \/ \E h \in H : PsPool(h)
    \/ \E h \in H : PsSellBalance(h)
    \/ \E h \in H : PsEnsureAccount(h)
    \/ \E h \in H : PsConfirmAccount(h)
    \/ \E h \in H : PsSwapSell(h)
    \/ \E h \in H : PsConfirmSell(h)

PumpSellSpec == PumpSellInit /\ [][PumpSellNext]_vars

(***************************************************************************)
(* The classification of RaydiumService and PumpSwapService on             *)
(* transactions that move several owned token balances or none.  None of   *)
(* them gets past the balance check and the baseline check, so the later   *)
(* steps of the services have no part in it.                               *)
(***************************************************************************)
ClassifyNext ==
    \/ \E h \in H, s \in ClassifySigs : TxLands(h, s)
    \/ \E h \in H : GetSignatures(h)
    \/ \E h \in H : RouterFetch(h)
    \/ \E h \in H : RayFetch(h)
    \/ \E h \in H : RaySolBalance(h)
    \/ \E h \in H : PsFetch(h)
    \/ \E h \in H : PsPool(h)

ClassifySpec == Init /\ [][ClassifyNext]_vars

(***************************************************************************)
(* The three services reached from the router on transactions whose fee    *)
(* payer is not the watched wallet.                                        *)
(***************************************************************************)
ForeignNext ==
    \/ \E h \in H, s \in ForeignSigs : TxLands(h, s)
    \/ \E h \in H : Redeliver(h)
    \/ \E h \in H : GetSignatures(h)
    \/ \E h \in H : RouterFetch(h)
    \/ \E h \in H : RayFetch(h)
    \/ \E h \in H : PsFetch(h)
    \/ \E h \in H : PpFetch(h)
    \/ \E h \in H : PpSwap(h)

ForeignSpec == Init /\ [][ForeignNext]_vars

(***************************************************************************)
(* The router's choice of a venue on transactions with the markers of      *)
(* several venues.  The transactions trade nothing, so each service        *)
(* returns from its fetch step.                                            *)
(***************************************************************************)
VenueNext ==
    \/ \E h \in H, s \in MarkerSigs : TxLands(h, s)
    \/ \E h \in H : Redeliver(h)
    \/ \E h \in H : GetSignatures(h)
    \/ \E h \in H : RouterFetch(h)
    \/ \E h \in H : RayFetch(h)
    \/ \E h \in H : PsFetch(h)
    \/ \E h \in H : PpFetch(h)

VenueSpec == Init /\ [][VenueNext]_vars

(***************************************************************************)
(* Both dispatch paths of the router, on transactions that end in each     *)
(* outcome: not the venue's or not the watched wallet's, unavailable,      *)
(* a sell without a baseline, a swap that fails or succeeds.               *)
(***************************************************************************)
DispatchSigs == {"rf", "ps50", "pp"}

DispatchNext ==
    \/ \E h \in H, s \in DispatchSigs : TxLands(h, s)
    \/ \E h \in H : Redeliver(h)
    \/ \E h \in H, s \in PushSigs : PushMessage(h, s)
    \/ \E h \in H : GetSignatures(h)
    \/ \E h \in H : RouterFetch(h)
    \/ \E h \in H : RayFetch(h)
    \/ \E h \in H : PsFetch(h)
    \/ \E h \in H : PsPool(h)
    \/ \E h \in H : PpFetch(h)
    \/ \E h \in H : PpSwap(h)

DispatchSpec == Init /\ [][DispatchNext]_vars

(***************************************************************************)
(* PumpPortalService on several transactions of one mint.                  *)
(***************************************************************************)
PortalNext ==
    \/ \E h \in H, s \in PortalSigs : TxLands(h, s)
    \/ \E h \in H : Redeliver(h)
    \/ \E h \in H : GetSignatures(h)
    \/ \E h \in H : RouterFetch(h)
    \/ \E h \in H : PpFetch(h)
    \/ \E h \in H : PpSwap(h)

PortalSpec == Init /\ [][PortalNext]_vars

(***************************************************************************)
(* The PumpPortal feed with a position open: the state FeedSpec reaches    *)
(* when the feed buy fb (100 A for 2 SOL) has been mirrored and accounted  *)
(* with a live balance of 10 A; deliveries are counted from there.  The    *)
(* source wallet then sells.                                               *)
(***************************************************************************)
FeedSellSigs == {"fs50", "fs100"}

FeedSellInit ==
    /\ landed = {}
    /\ latest = "none"
    /\ deliveries = 0
    /\ processedSignatures = {}
    /\ sourceTokenBalances = [v \in Services |-> [m \in Mints |-> ZeroBalance]]
    /\ tokenBalances = [v \in Services |-> [m \in Mints |-> ZeroBalance]]
    /\ handlers = [h \in H |-> Idle]
    /\ effects = [s \in AllSigs |->
            IF s = "fb"
            THEN [NoEffects EXCEPT !.cls = 1, !.src = 1, !.swaps = 1, !.ids = 1, !.ctl = 1,
                                   !.note = 1, !.noteFailed = 1]
            ELSE NoEffects]
    /\ returned = {"fb"}
    /\ redeliveryEffects = 0
    /\ processedTransactions = {}
    /\ feedProcessedSignatures = {"fb"}
    /\ feedSourceTokenBalances = [m \in Mints |-> [bought |-> RInt(100), sold |-> Zero]]
    /\ feedTokenBalances =
            [m \in Mints |-> [bought |-> RInt(10), sold |-> Zero, costInSol |-> Rat(1, 5),
                              revenueInSol |-> Zero]]
    /\ tradeRecords = NoTradeRecords

FeedSellNext ==
    \/ \E h \in H, s \in FeedSellSigs : FeedMessage(h, s)
    \/ \E h \in H : FeedSellBalance(h)
    \/ \E h \in H : FeedSwapSell(h)

FeedSellSpec == FeedSellInit /\ [][FeedSellNext]_vars

(***************************************************************************)
(* Properties.                                                             *)
(***************************************************************************)
\* the handler is awaiting the answer of a swap it has requested
SwapPcs == {"ray_swapBuy", "ray_swapSell", "ps_swapBuy", "ps_swapSell", "pp_swap",
            "feed_swapBuy", "feed_swapSell"}

\* the sell has been sized and is on its way to the swap
SizedSellPcs == {"ray_quoteSell", "ray_swapSell", "ps_swapSell"}

\* the processed set the handler's service checks and marks
ProcessedSetOf(r) == IF r.svc = "feed" THEN feedProcessedSignatures ELSE processedSignatures

\* signatures the router hands to RaydiumService or PumpSwapService
VenueSigs == {s \in Sigs : RouterPool(TxOf(s)) \in {"raydium", "pump-amm"}}

AllIdle == \A h \in H : handlers[h].pc = "idle"

C2_ConcurrentDuplicate ==
    \A s \in Sigs : effects[s].swaps <= 1 /\ effects[s].src <= 1 /\ effects[s].ctl <= 1

\* C3: in every state in which a handler is submitting a swap for a source
\* identifier, that identifier is already in the handler's processed set
C3_MarkedBeforeSwap ==
    \A h \in H : handlers[h].pc \in SwapPcs => handlers[h].sig \in ProcessedSetOf(handlers[h])

\* C4: the sell amount computed by RaydiumService or PumpSwapService never exceeds
\* min(controlledBought - controlledSold, liveBalance), the override included
C4_SizingClamp ==
    \A h \in H : handlers[h].pc \in SizedSellPcs =>
        LET r == handlers[h]
        IN  /\ RLe(r.sellAmount, RSub(r.targetInitialBought, r.targetSold))
            /\ RLe(r.sellAmount, r.realBalance)

\* x is within 0.01 of 1.0
NearOne(x) == RLt(RAbs(RSub(x, One)), LAST_SALE_TOLERANCE)

\* C5: when sourceSold/sourceBought after recording the sell is within 0.01 of 1.0,
\* the computed sell amount equals the live balance
C5_FinalLiquidation ==
    \A h \in H : handlers[h].pc \in SizedSellPcs =>
        LET r == handlers[h]
        IN  NearOne(RDiv(r.sourceSold, r.sourceInitialBought)) => r.sellAmount = r.realBalance

\* C6: when the source keeps an unsold remainder (sourceSold/sourceBought not
\* within 0.01 of 1.0), the computed sell amount is
\* min(controlledBought * f, controlledBought - controlledSold, liveBalance)
\* with f = sourceAssetAmount / sourceBought
C6_ProportionalSell ==
    \A h \in H : handlers[h].pc \in SizedSellPcs =>
        LET r == handlers[h]
            f == RDiv(Parsed(r).tokenAmount, r.sourceInitialBought)
        IN  ~NearOne(RDiv(r.sourceSold, r.sourceInitialBought)) =>
                r.sellAmount = RMin(RMin(RMul(r.targetInitialBought, f),
                                         RSub(r.targetInitialBought, r.targetSold)),
                                    r.realBalance)

NotDecreased(old, new) == RLe(old.bought, new.bought) /\ RLe(old.sold, new.sold)

\* no transaction identifier has been handled twice
HandledOnce(eff) == \A s \in DOMAIN eff : eff[s].cls <= 1

\* C7: no step decreases a ledger total (source or controlled, bought or sold),
\* already when every transaction identifier is handled once
C7_PureAccumulation ==
    [][HandledOnce(effects') =>
        /\ \A v \in Services, m \in Mints :
            /\ NotDecreased(sourceTokenBalances[v][m], sourceTokenBalances'[v][m])
            /\ NotDecreased(tokenBalances[v][m], tokenBalances'[v][m])
        /\ \A m \in Mints :
            /\ NotDecreased(feedSourceTokenBalances[m], feedSourceTokenBalances'[m])
            /\ NotDecreased(feedTokenBalances[m], feedTokenBalances'[m])]_vars

\* the service of the router that handles signature s
VenueOf(s) == ServiceOf(RouterPool(TxOf(s)))

RECURSIVE SumTokenAmount(_)
SumTokenAmount(S) ==
    IF S = {} THEN Zero
    ELSE LET s == CHOOSE x \in S : TRUE
         IN  RAdd(ParseSwap(TxOf(s)).tokenAmount, SumTokenAmount(S \ {s}))

\* the source transactions service v has classified as buys of mint m
ClassifiedBuys(v, m) ==
    {s \in VenueSigs : /\ VenueOf(s) = v
                       /\ effects[s].cls >= 1
                       /\ ParseSwap(TxOf(s)).isBuy
                       /\ ParseSwap(TxOf(s)).mint = m}

\* C8: once a service's handlers have returned, its sourceBought of an asset is the
\* sum of the amounts of the transactions it classified as buys of the asset,
\* whether or not their mirror trade was executed
C8_AccumulatorCorrectness ==
    \A v \in Services, m \in Mints :
        (/\ \A h \in H : handlers[h].svc # v
         /\ HandledOnce(effects))
        => sourceTokenBalances[v][m].bought = SumTokenAmount(ClassifiedBuys(v, m))

\* at least one of the venue's signals holds: its program id among the programs of
\* the transaction, its marker in the logs, or the pool hint
RaydiumSignal(tx, pool) ==
    \/ tx.programs \cap {"raydium", "raydiumCpmm"} # {}
    \/ "raydiumCpmm" \in tx.inner
    \/ tx.logs \cap {"Swap", "CAMM"} # {}
    \/ pool = "raydium"

PumpSwapSignal(tx, pool) ==
    \/ "pumpswap" \in tx.keys
    \/ tx.logs \cap {"Instruction: Buy", "Instruction: Sell", "pump-amm"} # {}
    \/ pool = "pump-amm"

\* C9: a transaction of the watched wallet that RaydiumService or PumpSwapService
\* is about to classify is classified as the venue's trade whenever at least one of
\* the venue's signals holds
C9_ClassificationIsOr ==
    \A h \in H :
        LET r == handlers[h]
            tx == TxOf(r.sig)
        IN  /\ r.pc = "ray_fetch" /\ tx.feePayer = TARGET_WALLET /\ RaydiumSignal(tx, r.pool)
                => isRaydium(tx, r.pool)
            /\ r.pc = "ps_fetch" /\ tx.feePayer = TARGET_WALLET /\ PumpSwapSignal(tx, r.pool)
                => isPumpSwap(tx, r.pool)

\* the spend tradePercentage * sourceCounterAssetAmount is below the minimum trade
BelowMinimum(solAmount, tradePercentage, minimum) ==
    RLt(RMul(solAmount, tradePercentage), minimum)

\* C10: for a source buy whose mirrored spend is below the minimum trade amount no
\* swap is submitted and the controlled totals stay unchanged, on the Raydium,
\* PumpSwap and PumpPortal feed paths
C10_BuyBelowMinimum ==
    /\ \A s \in VenueSigs :
            LET p == ParseSwap(TxOf(s))
            IN  p.isBuy /\ BelowMinimum(p.solAmount, TRADE_PERCENTAGE, MIN_TRADE_AMOUNT)
                    => effects[s].swaps = 0 /\ effects[s].ctl = 0
    /\ \A s \in FeedSigs :
            LET m == FeedMsg(s)
            IN  /\ m.txType = "buy"
                /\ BelowMinimum(m.solAmount, PUMP_PORTAL_TRADE_PERCENTAGE, MIN_TRADE_AMOUNT)
                => effects[s].swaps = 0 /\ effects[s].ctl = 0

\* the handler is awaiting the answer of a buy swap of RaydiumService or PumpSwapService
BuySwapPcs == {"ray_swapBuy", "ps_swapBuy"}

\* the handler is awaiting the live balance it reads after its buy swap
BoughtBalancePcs == {"ray_boughtBalance", "ps_boughtBalance"}

TradePercentageOf(svc) ==
    IF svc = "raydium" THEN RAYDIUM_TRADE_PERCENTAGE ELSE TRADE_PERCENTAGE

\* C11: the native amount of every buy request of RaydiumService and PumpSwapService
\* is floor(s * tradePercentage) in lamports, and the step that accounts a submitted
\* buy sets controlledBought to the live balance read after the swap when it is
\* positive, otherwise to q * tradePercentage
C11_BuyMirroring ==
    [][\A h \in H :
        /\ handlers'[h].pc \in BuySwapPcs =>
                LET r == handlers'[h]
                    p == Parsed(r)
                IN  r.amountIn = RFloor(RMul(RMul(p.solAmount, TradePercentageOf(r.svc)),
                                             RInt(LAMPORTS_PER_SOL)))
        /\ (/\ handlers[h].pc \in BoughtBalancePcs
            /\ handlers[h].swaps > 0
            /\ tokenBalances' # tokenBalances) =>
                LET r == handlers[h]
                    p == Parsed(r)
                IN  \E units \in LiveUnits :
                        tokenBalances'[r.svc][p.mint].bought =
                            IF units > 0 THEN Rat(units, Pow10(DecimalsOf(p.mint)))
                            ELSE RMul(p.tokenAmount, TradePercentageOf(r.svc))]_vars

\* C12: for every source transaction handled by RaydiumService or PumpSwapService,
\* each update of the controlled totals is preceded by a confirmation of the mirror
\* swap observed by the handler that makes the update
C12_ConfirmationBeforeAccounting ==
    \A s \in VenueSigs : effects[s].ctl <= effects[s].conf

\* C13: for every source transaction, the controlled totals are updated and a trade
\* notification is sent at most as often as a mirror swap call returned a
\* transaction identifier: a swap call that returns none leaves the totals
\* unchanged and sends nothing
C13_VenueRejected ==
    \A s \in Sigs \cup FeedSigs :
        /\ effects[s].ctl <= effects[s].ids
        /\ effects[s].note <= effects[s].ids

\* C14: no invocation of a message handler, of the router or of the PumpPortal
\* feed, ends with an exception that nothing caught
C14_FailureContainment ==
    \A s \in Sigs \cup FeedSigs : effects[s].unhandled = 0

\* C15: the processed set only grows: no step of the process, a reconnection of the
\* router after a close of the inbound WebSocket included, removes a transaction
\* identifier that was marked processed
C15_ProcessedAppendOnly ==
    [][processedSignatures \subseteq processedSignatures']_vars

\* signatures the router hands to PumpPortalService
PumpPortalSigs == {s \in Sigs : RouterPool(TxOf(s)) = "pump-portal"}

\* C16: whatever the deliveries of a transaction identifier, one after the other,
\* to PumpPortalService through the router or to the PumpPortal feed handler, at
\* most one swap is ever submitted for it, also when the first attempt failed or a
\* step after its swap threw
C16_AtMostOnceAttempt ==
    \A s \in PumpPortalSigs \cup FeedSigs :
        effects[s].overlap = 0 => effects[s].swaps <= 1

\* C17: when the feed handler receives a transaction identifier again after its
\* earlier invocations for it have returned (none of them overlapped or threw), the
\* source-side accumulators have changed at most once for it, also when the first
\* invocation returned early because the controlled wallet had too few tokens to sell
C17_FeedIdempotency ==
    \A s \in FeedSigs :
        (effects[s].overlap = 0 /\ effects[s].unhandled = 0) => effects[s].src <= 1

\* the handler has sized a sell and goes on to request its quote or its swap
SellSizedPcs == {"ray_quoteSell", "ps_swapSell", "feed_swapSell"}

\* controlledBought as the sizing handler knows it: the value it read (RaydiumService
\* and PumpSwapService), the ledger's value for the feed handler, which reads none
ControlledBoughtAtSizing(r) ==
    IF r.svc = "feed" THEN feedTokenBalances[FeedMsg(r.sig).mint].bought
    ELSE r.targetInitialBought

\* C18: in every sell path (RaydiumService, PumpSwapService, the feed handler) a sell
\* goes on to a swap only if sourceBought and controlledBought of the asset are
\* positive when it is sized and the clamped amount is positive; otherwise no swap is
\* submitted and the controlled totals stay as they are
C18_SellRejectionWithoutBaseline ==
    [][\A h \in H :
        (handlers'[h].pc \in SellSizedPcs /\ handlers[h].pc \notin SellSizedPcs) =>
            LET r == handlers'[h]
            IN  /\ RLt(Zero, r.sourceInitialBought)
                /\ RLt(Zero, ControlledBoughtAtSizing(r))
                /\ RLt(Zero, r.sellAmount)]_vars

\* the handler awaits the native balance of the controlled wallet
SolCheckPcs == {"ray_solBalance", "ps_pool"}

\* a buy that has passed the balance check
FundedBuyPcs == {"ray_quoteBuy", "ps_swapBuy"}

SlippageOf(svc) == IF svc = "raydium" THEN RAYDIUM_SLIPPAGE ELSE SLIPPAGE

\* controlledSpend * (1 + slippage) + the fee reserve of 0.00005
BuyThreshold(r) ==
    LET controlledSpend == RMul(Parsed(r).solAmount, TradePercentageOf(r.svc))
    IN  RAdd(RMul(controlledSpend, RAdd(One, SlippageOf(r.svc))), Rat(5, 100000))

\* C19: in RaydiumService and PumpSwapService a buy goes past the balance check only
\* with a live native balance of at least controlledSpend * (1 + slippage) + 0.00005;
\* with less the handler returns at the check: it requests no quote, submits no
\* swap, and leaves the source-side and the controlled-side totals as they were
C19_InsufficientBalance ==
    [][\A h \in H :
        LET r == handlers[h]
        IN  (r.pc \in SolCheckPcs /\ Parsed(r).isBuy /\ handlers'[h] # r) =>
                /\ handlers'[h].pc \in FundedBuyPcs =>
                        ~RLt(handlers'[h].solBalance, BuyThreshold(r))
                /\ effects'[r.sig].short > effects[r.sig].short =>
                        /\ handlers'[h].pc = "idle"
                        /\ sourceTokenBalances' = sourceTokenBalances
                        /\ tokenBalances' = tokenBalances
                        /\ effects'[r.sig].swaps = effects[r.sig].swaps]_vars

\* a buy was skipped at the balance check and nothing was recorded or submitted for it
C19_Witness ==
    \E s \in VenueSigs :
        /\ effects[s].short >= 1
        /\ effects[s].src = 0 /\ effects[s].ctl = 0 /\ effects[s].swaps = 0
        /\ \A v \in Services, m \in Mints :
                sourceTokenBalances[v][m] = ZeroBalance /\ tokenBalances[v][m] = ZeroBalance
        /\ \A h \in H : handlers[h].pc = "idle"

\* C20: a notifier whose send fails (an exception, a status other than 200, a
\* missing configuration) throws nothing to its caller: the handler that called it
\* goes on normally, a handler of the router returns in that step, with the ledger
\* update of the event made as it is when the send succeeds
C20_NotificationFailureIsolation ==
    [][\A h \in H :
        LET r == handlers[h]
        IN  (/\ r.sig \in DOMAIN effects
             /\ handlers'[h] # r
             /\ effects'[r.sig].noteFailed > effects[r.sig].noteFailed) =>
                /\ effects'[r.sig].escaped = 0
                \* the router's services notify as their last step, the feed handler
                \* goes on to read the balance after the swap function has notified
                /\ r.svc # "feed" =>
                        /\ effects'[r.sig].unhandled = effects[r.sig].unhandled
                        /\ handlers'[h].pc = "idle"
                        /\ r.sig \in returned'
                /\ r.svc \in Services => effects'[r.sig].ctl = effects[r.sig].ctl + 1]_vars

\* a send failed, the handler has returned and the controlled totals hold the trade
C20_Witness ==
    \E s \in VenueSigs :
        /\ effects[s].noteFailed >= 1
        /\ effects[s].ctl >= 1
        /\ s \in returned
        /\ \E v \in Services, m \in Mints : tokenBalances[v][m] # ZeroBalance
        /\ \A h \in H : handlers[h].pc = "idle"

\* the handler awaits getParsedTransaction in the fetch loop of its service
FetchPcs == {"ray_fetch", "ps_fetch"}

\* C21: RaydiumService and PumpSwapService make at most 5 fetch attempts for the
\* source transaction in one invocation, go on at the first complete answer, and a
\* service that gives up after the fifth failure has changed no ledger, submitted
\* no swap and has not itself marked the identifier processed
C21_TransactionUnavailable ==
    [][\A h \in H :
        LET r == handlers[h]
        IN  (r.pc \in FetchPcs /\ handlers'[h] # r) =>
                \* this step is attempt number r.attempt + 1
                /\ r.attempt + 1 <= 5
                /\ handlers'[h].pc \in FetchPcs => handlers'[h].attempt = r.attempt + 1
                /\ effects'[r.sig].cls > effects[r.sig].cls => handlers'[h].pc \notin FetchPcs
                /\ sourceTokenBalances' = sourceTokenBalances
                /\ tokenBalances' = tokenBalances
                /\ effects'[r.sig].gaveUp > effects[r.sig].gaveUp =>
                        /\ r.attempt + 1 = 5
                        /\ handlers'[h].pc = "idle"
                        /\ effects'[r.sig].swaps = effects[r.sig].swaps
                        /\ effects'[r.sig].marked = effects[r.sig].marked]_vars

\* a service gave up on a transaction it never classified, traded or marked
C21_Witness ==
    \E s \in VenueSigs :
        /\ effects[s].gaveUp >= 1
        /\ effects[s].marked = 0 /\ effects[s].cls = 0
        /\ effects[s].swaps = 0 /\ effects[s].src = 0 /\ effects[s].ctl = 0
        /\ \A h \in H : handlers[h].pc = "idle"

\* the inbound stream whose listener started the invocation
StreamOf(r) == IF r.svc = "feed" THEN "feed" ELSE "router"

\* C22: no two handler invocations started by messages of the same inbound stream are
\* in progress at the same time
C22_PerStreamSerialization ==
    \A g, h \in H :
        (g # h /\ handlers[g].pc # "idle" /\ handlers[h].pc # "idle") =>
            StreamOf(handlers[g]) # StreamOf(handlers[h])

\* C23: every swap of the watched wallet that has landed and caused an account
\* notification is in the end taken up by the router, which dispatches it to a venue
\* handler or finds it processed, also when several swaps land before the router has
\* fetched the latest signature for the first notification
C23_EverySwapMirrored ==
    <>[](\A s \in landed : effects[s].seen > 0)

\* C24: once the handlers have finished, every mirror swap that was submitted and
\* returned a transaction identifier, on any venue path, has had its notification
\* send attempted
C24_TradeNotifications ==
    AllIdle => \A s \in Sigs \cup FeedSigs : effects[s].ids <= effects[s].note

\* the state of Spec that SellInit starts from, the count of deliveries apart
SellInitReached ==
    /\ landed = {"rb"} /\ latest = "rb" /\ processedSignatures = {"rb"}
    /\ sourceTokenBalances["raydium"]["A"] = [bought |-> RInt(100), sold |-> Zero]
    /\ tokenBalances["raydium"]["A"] = [bought |-> RInt(10), sold |-> Zero]
    /\ \A h \in H : handlers[h] = Idle
    /\ effects["rb"] = [NoEffects EXCEPT !.seen = 1, !.marked = 1, !.cls = 1, !.src = 1,
                                         !.swaps = 1, !.conf = 1, !.ids = 1, !.ctl = 1,
                                         !.note = 1]
    /\ returned = {"rb"} /\ redeliveryEffects = 0

\* the state of Spec that PumpSellInit starts from, the count of deliveries apart
PumpSellInitReached ==
    /\ landed = {"pb"} /\ latest = "pb" /\ processedSignatures = {"pb"}
    /\ sourceTokenBalances["pumpswap"]["A"] = [bought |-> RInt(100), sold |-> Zero]
    /\ tokenBalances["pumpswap"]["A"] = [bought |-> RInt(10), sold |-> Zero]
    /\ \A h \in H : handlers[h] = Idle
    /\ effects["pb"] = [NoEffects EXCEPT !.seen = 1, !.marked = 1, !.cls = 1, !.src = 1,
                                         !.swaps = 1, !.conf = 1, !.ids = 1, !.ctl = 1,
                                         !.note = 1]
    /\ returned = {"pb"} /\ redeliveryEffects = 0

\* the sell is sized and its swap not yet answered
SellInFlightPcs == {"ray_quoteSell", "ray_swapSell", "ps_swapSell"}

\* C25: when the handlers of two different source sells of one asset are interleaved
\* in the same service, both having read the same live balance and neither swap yet
\* answered, the sum of the two sell amounts exceeds neither that live balance nor
\* controlledBought - controlledSold as they stood before either submission
C25_NoDoubleSpend ==
    \A g, h \in H :
        LET a == handlers[g]
            b == handlers[h]
        IN  (/\ g # h
             /\ a.pc \in SellInFlightPcs /\ b.pc \in SellInFlightPcs
             /\ a.svc = b.svc /\ a.sig # b.sig
             /\ Parsed(a).mint = Parsed(b).mint
             /\ a.realBalance = b.realBalance
             /\ a.swaps = 0 /\ b.swaps = 0) =>
                LET total == RAdd(a.sellAmount, b.sellAmount)
                    ledger == tokenBalances[a.svc][Parsed(a).mint]
                IN  /\ RLe(total, a.realBalance)
                    /\ RLe(total, RSub(ledger.bought, ledger.sold))

\* C26: for every sell PumpSwapService is about to submit (direct pool path, and the
\* aggregator paths when the quote was requested for the live balance the sizing
\* read), the token quantity submitted to the venue equals the computed sell amount
\* that is added to controlledSold
C26_SubmittedEqualsSized ==
    \A h \in H :
        LET r == handlers[h]
            scale == Pow10(DecimalsOf(Parsed(r).mint))
        IN  (/\ r.pc = "ps_swapSell"
             /\ r.path = "direct" \/ Rat(r.quoteUnits, scale) = r.realBalance) =>
                /\ RLe(Rat(r.sellUnits, scale), r.sellAmount)
                /\ RLe(r.sellAmount, Rat(r.sellUnits, scale))

\* the watched wallet's native spend in a transaction, the fee apart
SourceNativeSpend(tx) == Rat(tx.preBalance - tx.postBalance - tx.fee, LAMPORTS_PER_SOL)

\* C27: when PumpPortalService mirrors a source buy, the native amount it passes to
\* the swap is the source's native spend times the configured trade percentage, and
\* is not the source's token quantity
C27_PortalBuySizing ==
    \A h \in H :
        LET r == handlers[h]
            tx == TxOf(r.sig)
            q == PortalParse(tx)
        IN  (r.pc = "pp_swap" /\ q.txType = "buy") =>
                /\ PortalSwapAmount(q) = RMul(SourceNativeSpend(tx), PUMP_PORTAL_TRADE_PERCENTAGE)
                /\ PortalSwapAmount(q) # Rat(tx.transfer.amount, 1000000)

\* the state of FeedSpec that FeedSellInit starts from, the count of deliveries apart
FeedSellInitReached ==
    /\ feedProcessedSignatures = {"fb"} /\ returned = {"fb"}
    /\ feedSourceTokenBalances["A"] = [bought |-> RInt(100), sold |-> Zero]
    /\ feedTokenBalances["A"] = [bought |-> RInt(10), sold |-> Zero, costInSol |-> Rat(1, 5),
                                 revenueInSol |-> Zero]
    /\ \A h \in H : handlers[h] = Idle
    /\ effects["fb"] = [NoEffects EXCEPT !.cls = 1, !.src = 1, !.swaps = 1, !.ids = 1,
                                         !.ctl = 1, !.note = 1, !.noteFailed = 1]
    /\ redeliveryEffects = 0

\* C28: in the feed handler, when the source's cumulative sold has reached its lifetime
\* bought for the asset once the sell is recorded (sourceSold / sourceBought >= 1), the
\* amount submitted for sale is the controlled wallet's entire live balance, earlier
\* partial sells of the asset or not
C28_FeedFinalLiquidation ==
    \A h \in H :
        LET r == handlers[h]
        IN  (/\ r.pc = "feed_swapSell"
             /\ RLt(Zero, r.sourceInitialBought)
             /\ RLe(r.sourceInitialBought, r.sourceSold)) =>
                r.sellAmount = r.realBalance

\* every invocation of ClassifySpec ends within the actions of ClassifyNext
ClassifyPcs == {"idle", "getSignatures", "routerFetch", "ray_fetch", "ray_solBalance",
                "ps_fetch", "ps_pool"}
ClassifyComplete == \A h \in H : handlers[h].pc \in ClassifyPcs

\* the change of the watched wallet's balance of a mint in a transaction, in tokens
OwnedDecrease(tx, mint) ==
    Rat(FindAmount(tx.preTok, mint) - FindAmount(tx.postTok, mint), Pow10(DecimalsOf(mint)))
OwnedIncrease(tx, mint) ==
    Rat(FindAmount(tx.postTok, mint) - FindAmount(tx.preTok, mint), Pow10(DecimalsOf(mint)))

\* C29: whenever a step of RaydiumService or PumpSwapService adds to the source sold
\* total of a mint, it adds the decrease of the watched wallet's balance of that mint
\* in the transaction, and whenever it adds to the source bought total, the increase
\* of the watched wallet's balance of that mint, whatever other owned token balance
\* the transaction moves
C29_SourceAmountFromTradedDelta ==
    [][\A h \in H, m \in Mints :
          LET r == handlers[h]
              old == sourceTokenBalances[r.svc][m]
              new == sourceTokenBalances'[r.svc][m]
          IN  (r.svc \in Services /\ handlers'[h] # r /\ new # old) =>
                  /\ new.sold # old.sold =>
                         RSub(new.sold, old.sold) = OwnedDecrease(TxOf(r.sig), m)
                  /\ new.bought # old.bought =>
                         RSub(new.bought, old.bought) = OwnedIncrease(TxOf(r.sig), m)]_vars

\* C30: in RaydiumService and PumpSwapService, with input the first owned token whose
\* balance decreased and output the first owned token whose balance increased (the
\* settlement asset when there is none), the event is a buy exactly when the input is
\* the settlement asset and the output is not, a sell exactly when the output is the
\* settlement asset and the input is not, never both; when both are the settlement
\* asset the invocation goes no further than the fetch, changes no ledger and submits
\* no swap; when neither is, no step of the invocation changes a ledger total or
\* submits a swap
C30_DirectionClassification ==
    [][\A h \in H :
          LET r == handlers[h]
          IN  (r.svc \in Services /\ handlers'[h] # r) =>
                  LET tx == TxOf(r.sig)
                      input == InputDelta(tx).mint
                      output == OutputDelta(tx).mint
                      p == Parsed(r)
                      ledgersSame == /\ sourceTokenBalances'[r.svc] = sourceTokenBalances[r.svc]
                                     /\ tokenBalances'[r.svc] = tokenBalances[r.svc]
                      noSwap == effects'[r.sig].swaps = effects[r.sig].swaps
                  IN  /\ p.isBuy <=> (input = SOL_MINT /\ output # SOL_MINT)
                      /\ p.isSell <=> (output = SOL_MINT /\ input # SOL_MINT)
                      /\ ~(p.isBuy /\ p.isSell)
                      /\ (input = SOL_MINT /\ output = SOL_MINT) =>
                             /\ ledgersSame
                             /\ noSwap
                             /\ handlers'[h].pc \in {"idle", r.pc}
                      /\ (input # SOL_MINT /\ output # SOL_MINT) =>
                             ledgersSame /\ noSwap]_vars

\* a token-to-token swap and a transaction that moves no owned token balance have
\* both been handled to the end
C30_Witness ==
    /\ {"rtt", "rnn"} \subseteq returned
    /\ effects["rtt"].cls > 0
    /\ effects["rnn"].marked > 0
    /\ \A h \in H : Free(h)

RouterServices == {"raydium", "pumpswap", "pumpportal"}

\* every invocation of ForeignSpec ends within the actions of ForeignNext
ForeignPcs == {"idle", "getSignatures", "routerFetch", "ray_fetch", "ps_fetch", "pp_fetch",
               "pp_swap"}
ForeignComplete == \A h \in H : handlers[h].pc \in ForeignPcs

\* C31: in RaydiumService, PumpSwapService and PumpPortalService, no step of an
\* invocation on a transaction whose fee payer is not the watched wallet changes a
\* ledger total or submits a swap
C31_FeePayerCheck ==
    [][\A h \in H :
          LET r == handlers[h]
          IN  (/\ r.svc \in RouterServices
               /\ handlers'[h] # r
               /\ TxOf(r.sig).feePayer # TARGET_WALLET) =>
                  /\ UNCHANGED <<sourceTokenBalances, tokenBalances, feedTokenBalances,
                                 feedSourceTokenBalances>>
                  /\ effects'[r.sig].swaps = effects[r.sig].swaps]_vars

\* every invocation of VenueSpec ends within the actions of VenueNext
VenuePcs == {"idle", "getSignatures", "routerFetch", "ray_fetch", "ps_fetch", "pp_fetch"}
VenueComplete == \A h \in H : handlers[h].pc \in VenuePcs

\* the venue the priority order raydium, pump-portal, pump-amm gives for the log
\* messages of a transaction, by the name of its service ("none": unknown)
VenueByPriority(tx) ==
    IF tx.logs \cap {"Swap", "CAMM"} # {} THEN "raydium"
    ELSE IF "pump-portal" \in tx.logs THEN "pumpportal"
    ELSE IF tx.logs \cap {"pump-amm", "Instruction: Buy", "Instruction: Sell"} # {}
    THEN "pumpswap"
    ELSE "none"

\* the service whose code an invocation is in
ServiceOfPc(pc) ==
    IF pc \in {"ray_fetch", "ray_solBalance", "ray_quoteBuy", "ray_swapBuy",
               "ray_boughtBalance", "ray_sellBalance", "ray_quoteSell", "ray_swapSell"}
    THEN "raydium"
    ELSE IF pc \in {"ps_fetch", "ps_pool", "ps_ensureAta", "ps_confirmAta",
                    "ps_ensureWsol", "ps_confirmWsol", "ps_swapBuy", "ps_boughtBalance",
                    "ps_sellBalance", "ps_swapSell", "ps_confirmSell"}
    THEN "pumpswap"
    ELSE IF pc \in {"pp_fetch", "pp_swap"} THEN "pumpportal"
    ELSE "none"

\* C32: on the account-notification path, the step of the router that follows the
\* fetch of a signature's transaction invokes at most one venue handler, the one of
\* the first venue in the order raydium, pump-portal, pump-amm whose marker is in the
\* log messages, and none when no marker is; an invocation never is in the code of
\* another venue's handler
C32_VenuePriority ==
    [][\A h \in H :
          LET r == handlers[h]
              n == handlers'[h]
          IN  /\ (r.pc = "routerFetch" /\ n # r) =>
                     LET venue == VenueByPriority(TxOf(r.sig))
                     IN  /\ ServiceOfPc(n.pc) \in {venue, "none"}
                         /\ n.svc \in {venue, "none"}
                         /\ venue = "none" => n.pc = "idle"
              /\ (r.svc \in RouterServices /\ n.svc \in RouterServices) =>
                     n.svc = r.svc /\ ServiceOfPc(n.pc) \in {r.svc, "none"}]_vars

\* a transaction with the markers of all three venues was handled by RaydiumService
\* and one with the pump-portal and pump-amm markers is in PumpPortalService
C32_Witness ==
    /\ "mall" \in returned
    /\ effects["mall"].marked > 0
    /\ \E h \in H : handlers[h].sig = "mpa" /\ handlers[h].pc = "pp_fetch"

\* every invocation of DispatchSpec ends within the actions of DispatchNext
DispatchPcs == {"idle", "getSignatures", "routerFetch", "ray_fetch", "ps_fetch", "ps_pool",
                "pp_fetch", "pp_swap"}
DispatchComplete == \A h \in H : handlers[h].pc \in DispatchPcs

RECURSIVE RecordedBuyCost(_)
RecordedBuyCost(recs) ==
    IF recs = <<>> THEN Zero
    ELSE RAdd(RMul(Head(recs).buyPriceSol, Head(recs).buyAmount), RecordedBuyCost(Tail(recs)))

\* C34: in RaydiumService and PumpSwapService, the step that accounts a mirrored and
\* confirmed controlled buy adds a buy record whose cost is the settlement amount
\* spent on it, and the step that records a mirrored sell of an asset the controlled
\* wallet had bought finds at least one buy record to compute the profit from
C34_CostTracking ==
    [][\A h \in H :
          LET r == handlers[h]
          IN  (r.svc \in Services /\ handlers'[h] # r) =>
                  LET p == Parsed(r)
                      old == tradeRecords[r.svc][p.mint]
                      new == tradeRecords'[r.svc][p.mint]
                      cost == TradeAmountSolRounded(p.solAmount, TradePercentageOf(r.svc))
                  IN  /\ (p.isBuy /\ effects'[r.sig].ctl = effects[r.sig].ctl + 1) =>
                             RecordedBuyCost(new) = RAdd(RecordedBuyCost(old), cost)
                      /\ (/\ p.isSell
                          /\ Len(new) > Len(old)
                          /\ RLt(Zero, tokenBalances[r.svc][p.mint].bought)) =>
                             BuyTrades(new) # <<>>]_vars

\* the bought totals of a mint over the ledgers of all venues, per role
AllVenuesSourceBought(m) ==
    RAdd(RAdd(sourceTokenBalances["raydium"][m].bought,
              sourceTokenBalances["pumpswap"][m].bought),
         feedSourceTokenBalances[m].bought)
AllVenuesControlledBought(m) ==
    RAdd(RAdd(tokenBalances["raydium"][m].bought, tokenBalances["pumpswap"][m].bought),
         feedTokenBalances[m].bought)

SolCheckStepPcs == {"ray_solBalance", "ps_pool"}
\* where a sell waits for the live balance, its baseline read
SellBaselinePcs == {"ray_sellBalance", "ps_sellBalance"}

\* C35: when RaydiumService or PumpSwapService records a source sell of an asset
\* that the source and the controlled wallet have bought on whatever venue, the sell
\* goes on to sizing with those bought totals as its baseline
C35_SharedPositionRecord ==
    [][\A h \in H :
          LET r == handlers[h]
              n == handlers'[h]
          IN  (/\ r.pc \in SolCheckStepPcs
               /\ Parsed(r).isSell
               /\ effects'[r.sig].src = effects[r.sig].src + 1
               /\ n # r
               /\ RLt(Zero, AllVenuesSourceBought(Parsed(r).mint))
               /\ RLt(Zero, AllVenuesControlledBought(Parsed(r).mint))) =>
                  /\ n.pc \in SellBaselinePcs
                  /\ n.sourceInitialBought = AllVenuesSourceBought(Parsed(r).mint)
                  /\ n.targetInitialBought = AllVenuesControlledBought(Parsed(r).mint)]_vars

\* C36: a position record of RaydiumService or PumpSwapService that holds a total,
\* source or controlled, is not put back to the empty record by any step of the
\* process, a reconnection of the router after a close of the inbound WebSocket
\* included
C36_PositionRecordsKept ==
    [][\A v \in Services, m \in Mints :
          /\ sourceTokenBalances[v][m] # ZeroBalance =>
                 sourceTokenBalances'[v][m] # ZeroBalance
          /\ tokenBalances[v][m] # ZeroBalance => tokenBalances'[v][m] # ZeroBalance]_vars

\* C37: in PumpPortalService.processTransaction, the set of composite keys only
\* grows, and an invocation that reaches the key check when the key of its
\* transaction's mint and direction is in the set, whatever its transaction
\* identifier, returns there and submits no swap
C37_CompositeKeyBlocking ==
    [][/\ processedTransactions \subseteq processedTransactions'
       /\ \A h \in H :
            LET r == handlers[h]
                n == handlers'[h]
            IN  (r.pc = "pp_fetch" /\ n # r) =>
                    LET q == PortalParse(TxOf(r.sig))
                    IN  (q.found /\ TransactionKey(q.mint, q.txType) \in processedTransactions)
                            => /\ n.pc = "idle"
                               /\ effects'[r.sig].swaps = effects[r.sig].swaps]_vars

\* the swap of one buy of A has succeeded and another buy of A, with a different
\* identifier, is at the key check
C37_Witness ==
    /\ effects["pp"].ids = 1
    /\ TransactionKey("A", "buy") \in processedTransactions
    /\ \E h \in H : handlers[h].pc = "pp_fetch" /\ handlers[h].sig = "pp2"

(***************************************************************************)
(* Termination of the handlers.  Every loop of the services is a `for`     *)
(* over attempt < 5 around one awaited call: the fetch loops (Raydium line *)
(* 217, PumpSwap line 236) and the confirmation loops (PumpSwap lines 146, *)
(* 213, 477, 575, 676).                                                    *)
(***************************************************************************)
\* the handler awaits checkTransactionStatus in a confirmation loop
PollPcs == {"ps_confirmAta", "ps_confirmWsol", "ps_confirmSell"}

\* the sell of a quarter of the open PumpSwap position, and a Raydium swap paid by
\* another wallet, which RaydiumService drops once its fetch loop has the
\* transaction
TerminationSigs == PartialSellSigs \cup {"rf"}

\* the call that invocation h awaits returns or throws, and the invocation runs to
\* its next await or to its return: the router up to the dispatch, the fetch loops,
\* and the PumpSwap sell with its account and confirmation loops
HandlerStep(h) ==
    \/ GetSignatures(h)
    \/ RouterFetch(h)
    \/ RayFetch(h)
    \/ PsFetch(h)
    \/ PsPool(h)
    \/ PsSellBalance(h)
    \/ PsEnsureAccount(h)
    \/ PsConfirmAccount(h)
    \/ PsSwapSell(h)
    \/ PsConfirmSell(h)

\* the notifications of this scenario arrive one after the other: a transaction
\* lands when no invocation is in progress
TxLandsIdle(h, s) ==
    /\ \A g \in H : Free(g)
    /\ TxLands(h, s)

TerminationNext ==
    \/ \E h \in H, s \in TerminationSigs : TxLandsIdle(h, s)
    \/ \E h \in H : HandlerStep(h)

\* the handlers with the PumpSwap position open, when every collaborator call of
\* every invocation returns or throws: no invocation stays at an await for ever
TerminationSpec ==
    PumpSellInit /\ [][TerminationNext]_vars /\ \A h \in H : WF_vars(HandlerStep(h))

\* no invocation of this scenario reaches a step that TerminationNext leaves out
TerminationPcs ==
    {"idle", "getSignatures", "routerFetch", "ray_fetch", "ps_fetch", "ps_pool",
     "ps_sellBalance", "ps_ensureWsol", "ps_confirmWsol", "ps_swapSell", "ps_confirmSell"}

TerminationComplete == \A h \in H : handlers[h].pc \in TerminationPcs

\* C38: when every collaborator call returns or throws, every invocation of a venue
\* handler terminates; an invocation in a fetch loop has made fewer than 5 failed
\* fetches and an invocation in a confirmation loop fewer than 5 unconfirmed polls,
\* so that neither loop awaits a sixth answer
C38_HandlerTermination ==
    /\ [](\A h \in H :
            /\ handlers[h].pc \in FetchPcs => handlers[h].attempt < MAX_FETCH_ATTEMPTS
            /\ handlers[h].pc \in PollPcs => handlers[h].attempt < MAX_CONFIRM_POLLS)
    /\ \A h \in H :
            (ServiceOfPc(handlers[h].pc) # "none") ~> (handlers[h].pc = "idle")

\* a confirmation loop ended after its last poll without a confirmation, the
\* handler returned and no invocation is in progress
C38_Witness ==
    \E s \in TerminationSigs :
        /\ effects[s].unconfirmed >= 1
        /\ s \in returned
        /\ \A h \in H : handlers[h].pc = "idle"

=============================================================================
